---- MODULE Spec2Model ----
(***************************************************************************)
(* Multi-component gas scrubber design engine (engine.thermo.scrubber and  *)
(* the hydraulics / mass-transfer correlations it calls).                  *)
(*                                                                         *)
(* Real numbers are modelled in decimal fixed point: a quantity q is held  *)
(* as the integer q * SC.  Power laws (Onda, GPDC, van't Hoff) are         *)
(* evaluated through fixed-point Ln / Exp, so that every intermediate     *)
(* stays inside 32-bit integers.  Heights are fixed-point metres; round(x,  *)
(* 3) and round(x, 4) are modelled by Round3 and Round4.                   *)
(***************************************************************************)
EXTENDS Integers, Sequences, FiniteSets, TLC

\* ------------------------------------------------------------------------
\* Fixed-point arithmetic
\* ------------------------------------------------------------------------

\* one unit of the fixed-point representation: q is stored as q * SC
SC == 10 ^ 6
\* square root of SC, used to split a factor into two 3-digit halves
SCH == 10 ^ 3
\* ln 2 and ln 10 in fixed point
LN2 == 693147
LN10 == 2302585

Abs(x) == IF x < 0 THEN -x ELSE x

Sgn(x) == IF x < 0 THEN -1 ELSE 1

Max(a, b) == IF a >= b THEN a ELSE b

Min(a, b) == IF a <= b THEN a ELSE b

\* round-half-up integer division of a non-negative numerator
RDiv(a, b) == (a + b \div 2) \div b

\* signed round-to-nearest integer division
SRDiv(a, b) == Sgn(a) * Sgn(b) * RDiv(Abs(a), Abs(b))

\* a * b / SC for non-negative fixed-point a, b (rounds to nearest)
MulU(a, b) ==
    LET a1 == a \div SCH
        a0 == a % SCH
        b1 == b \div SCH
        b0 == b % SCH
        t1 == a1 * b0
        t2 == a0 * b1
    IN  a1 * b1 + t1 \div SCH + t2 \div SCH
          + (((t1 % SCH) + (t2 % SCH)) * SCH + a0 * b0 + SC \div 2) \div SC

\* signed fixed-point product
Mul(a, b) == Sgn(a) * Sgn(b) * MulU(Abs(a), Abs(b))

\* long division: k more decimal digits of r / b appended to q
RECURSIVE DivDigits(_, _, _, _)
DivDigits(r, b, k, q) ==
    IF k = 0 THEN q
    ELSE DivDigits((r * 10) % b, b, k - 1, q * 10 + (r * 10) \div b)

\* a / b in fixed point for a >= 0, 0 < b < 2^31 / 10
DivU(a, b) == DivDigits(a % b, b, 6, a \div b)

\* signed fixed-point quotient
Div(a, b) == Sgn(a) * Sgn(b) * DivU(Abs(a), Abs(b))

\* 2^k
RECURSIVE Pow2(_)
Pow2(k) == IF k = 0 THEN 1 ELSE 2 * Pow2(k - 1)

\* 10^k
RECURSIVE Pow10(_)
Pow10(k) == IF k = 0 THEN 1 ELSE 10 * Pow10(k - 1)

\* the k >= 0 with 2^k * SC <= x < 2^(k+1) * SC, for x >= SC
RECURSIVE Log2Up(_)
Log2Up(x) == IF x < 2 * SC THEN 0 ELSE 1 + Log2Up(x \div 2)

\* the k >= 0 with SC <= x * 2^k < 2 * SC, for 0 < x < SC
RECURSIVE Log2Down(_)
Log2Down(x) == IF x >= SC THEN 0 ELSE 1 + Log2Down(x * 2)

\* the series of ln m in z = (m - 1) / (m + 1), with z2 = z * z:
\* 2 z (1 + z2/3 + z2^2/5 + z2^3/7 + z2^4/9 + z2^5/11)
LnSeries(z, z2) ==
    2 * MulU(z, SC + MulU(z2, 333333 + MulU(z2, 200000 + MulU(z2, 142857
                     + MulU(z2, 111111 + MulU(z2, 90909))))))

\* ln m from z = (m - 1) / (m + 1)
LnAtanh(z) == LnSeries(z, MulU(z, z))

\* ln m for SC <= m < 2 SC
LnMant(m) == LnAtanh(DivU(m - SC, m + SC))

\* the k with 2^k * SC <= x < 2^(k+1) * SC
Log2Norm(x) == IF x >= SC THEN Log2Up(x) ELSE -Log2Down(x)

\* ln x from the binary exponent k of x
LnNorm(x, k) == k * LN2 + LnMant(IF k >= 0 THEN x \div Pow2(k) ELSE x * Pow2(-k))

\* math.log of a positive fixed-point number
Ln(x) == LnNorm(x, Log2Norm(x))

\* the number of decimal digits to drop so that n / 10^j < 2000
RECURSIVE DecShift(_)
DecShift(n) == IF n < 2000 THEN 0 ELSE 1 + DecShift(n \div 10)

\* ln n from the decimal shift j of n
LnDec(n, j) ==
    Ln(IF j <= 6 THEN n * Pow10(6 - j) ELSE n \div Pow10(j - 6)) + j * LN10

\* math.log of a positive integer n (not fixed point)
LnInt(n) == LnDec(n, DecShift(n))

\* e^r for |r| <= 0.35, by the Taylor series to r^7 in Horner form
ExpSmall(r) ==
    SC + Mul(r, SC + SRDiv(Mul(r, SC + SRDiv(Mul(r, SC + SRDiv(Mul(r, SC
           + SRDiv(Mul(r, SC + SRDiv(Mul(r, SC + SRDiv(r, 7)), 6)), 5)), 4)), 3)), 2))

\* e * 2^k, rounded
ExpShift(e, k) ==
    IF k >= 0 THEN e * Pow2(k)
    ELSE IF k < -30 THEN 0
    ELSE RDiv(e, Pow2(-k))

\* e^y from the binary exponent k = round(y / ln 2)
ExpNorm(y, k) == ExpShift(ExpSmall(y - k * LN2), k)

\* the largest exponent whose exponential fits the fixed-point range
EXP_MAX == 7600 * SCH

\* math.exp of a fixed-point number; saturates above EXP_MAX (about 2000)
Exp(y) == IF y > EXP_MAX THEN 2000 * SC ELSE ExpNorm(y, SRDiv(y, LN2))

\* round(e^y) as a plain integer (e^y up to 2 * 10^9)
ExpInt(y) == Exp(y - 6 * LN10)

\* round(x, 4) of a fixed-point number
Round4(x) == RDiv(x, 100) * 100

\* ------------------------------------------------------------------------
\* Property provider (engine.database): the table the lookups read.
\* mw in mg/mol, H_pa in Pa, dH_sol in J/mol, T_ref in 0.01 K,
\* diffusivities as ln(D / (m2/s)) in fixed point.
\* ------------------------------------------------------------------------

NONE == [found |-> FALSE]

Compounds ==
    [ N2  |-> [name |-> "N2",  mw |-> 28014, category |-> "gas"],
      CO2 |-> [name |-> "CO2", mw |-> 44010, category |-> "acid_gas"],
      H2S |-> [name |-> "H2S", mw |-> 34080, category |-> "acid_gas"],
      HCl |-> [name |-> "HCl", mw |-> 36461, category |-> "acid_gas"],
      Water |-> [name |-> "Water", mw |-> 18015, category |-> "solvent"],
      Monoethanolamine |-> [name |-> "Monoethanolamine", mw |-> 61083, category |-> "solvent"] ]

\* db.get_compound(name): the record, or NONE
get_compound(name) ==
    IF name \in DOMAIN Compounds THEN [found |-> TRUE] @@ Compounds[name] ELSE NONE

HenryTable ==
    [ CO2 |-> [H_pa |-> 161000000, dH_sol |-> -19400, T_ref |-> 29815],
      H2S |-> [H_pa |-> 55300000,  dH_sol |-> -18000, T_ref |-> 29815] ]

\* db.get_henry(gas, solvent="water"): the record, or NONE
get_henry(id) ==
    IF id \in DOMAIN HenryTable THEN [found |-> TRUE] @@ HenryTable[id] ELSE NONE

KineticsTable ==
    [ MEA |-> [ CO2 |-> [enhancement_factor_E |-> 50,  lnD_G |-> LnInt(16) - 6 * LN10,
                         lnD_L |-> LnInt(19) - 10 * LN10],
                H2S |-> [enhancement_factor_E |-> 100, lnD_G |-> LnInt(18) - 6 * LN10,
                         lnD_L |-> LnInt(16) - 10 * LN10] ],
      MDEA |-> << >>,
      H2O |-> << >> ]

\* db.get_kinetics(gas, solv_id): the record, or NONE
get_kinetics(id, solv_id) ==
    IF id \in DOMAIN KineticsTable[solv_id]
    THEN [found |-> TRUE] @@ KineticsTable[solv_id][id] ELSE NONE

\* specific_area in m2/m3, void_fraction in %, packing_factor in 1/m,
\* hetp in mm, nominal_size_mm in mm (0: absent, a structured packing)
Packings ==
    [ PallRing50 |-> [specific_area |-> 105, void_fraction |-> 96, packing_factor |-> 66,
                      hetp |-> 650, nominal_size_mm |-> 50],
      Mellapak250Y |-> [specific_area |-> 250, void_fraction |-> 98, packing_factor |-> 66,
                        hetp |-> 350, nominal_size_mm |-> 0] ]

\* db.get_packing(name): the record, or NONE
get_packing(name) ==
    IF name \in DOMAIN Packings THEN [found |-> TRUE] @@ Packings[name] ELSE NONE

\* _solvent_id: the kinetics key of a solvent name
_solvent_id(solvent_name) ==
    IF solvent_name \in {"Monoethanolamine", "MEA"} THEN "MEA"
    ELSE IF solvent_name \in {"Methyldiethanolamine", "MDEA"} THEN "MDEA"
    ELSE "H2O"

\* _SOLVENT_REF_WT: reference wt% of the kinetics data (0: none)
_SOLVENT_REF_WT(solv_id) ==
    IF solv_id = "MEA" THEN 30 ELSE IF solv_id = "MDEA" THEN 50 ELSE 0

\* _MW_WATER, in mg/mol
_MW_WATER == 18015

\* ln R_GAS, R_GAS = 8.314 J/(mol K)
LnR_GAS == LnInt(8314) - 3 * LN10

\* ln g_ACCEL, g = 9.81 m/s2
Lng_ACCEL == LnInt(981) - 2 * LN10

\* ------------------------------------------------------------------------
\* Units of the request fields
\*   mol_percent      0.1 %          G_mass_kgs   g/s
\*   L_mass_kgs       1e-4 kg/s      T_celsius    deg C
\*   P_bar            Pa             flooding_fraction  %
\*   mu_L_Pas         1e-6 Pa s      sigma_Nm     mN/m
\*   rho_L_kgm3       kg/m3          Z_packed_m   m * SC (-1: None)
\*   removal_target_pct, solvent_wt_pct   %
\* ------------------------------------------------------------------------

\* ln of a gas rate held in g/s
LnG(G) == LnInt(G) - 3 * LN10

\* ln of a liquid rate held in 1e-4 kg/s
LnL(L) == LnInt(L) - 4 * LN10

\* ln of a viscosity held in 1e-6 Pa s
LnMu(mu) == LnInt(mu) - 6 * LN10

\* sum of the first n entries of a sequence of numbers
RECURSIVE SumSeq(_, _)
SumSeq(seq, n) == IF n = 0 THEN 0 ELSE seq[n] + SumSeq(seq, n - 1)

\* ------------------------------------------------------------------------
\* Column hydraulics (engine.thermo.column_hydraulics), in the log domain
\* ------------------------------------------------------------------------

\* flow_parameter: ln X, X = (L / G) sqrt(rho_G / rho_L)
flow_parameter(lnL, lnG, lnrho_G, lnrho_L) == lnL - lnG + (lnrho_G - lnrho_L) \div 2

\* the GPDC polynomial a0 + a1 ln X + a2 (ln X)^2 = ln Y_flood
gpdc_ln_Y(ln_X) == -4767400 + Mul(-963800, ln_X) + Mul(-84700, Mul(ln_X, ln_X))

\* _gpdc_flooding_capacity: ln Y_flood, X clamped to [0.01, 5]
_gpdc_flooding_capacity(lnX) == gpdc_ln_Y(Max(-2 * LN10, Min(lnX, LnInt(5))))

\* ln of the viscosity correction (mu_L / 0.001)^0.1
mu_correction(lnmu_L) == (lnmu_L + 3 * LN10) \div 10

\* flooding_velocity: ln u_flood, from
\* u_flood^2 = Y g (rho_L - rho_G) / (F_p rho_G mu_correction)
flooding_velocity(F_p, rho_G, lnrho_G, rho_L, lnmu_L, lnX) ==
    (_gpdc_flooding_capacity(lnX) + Lng_ACCEL + Ln(rho_L * SC - rho_G)
       - LnInt(F_p) - lnrho_G - mu_correction(lnmu_L)) \div 2

\* the rounded sizes column_diameter returns, from ln Q_gas and ln u_design
column_sizes(lnA, lnu_design) ==
    [ u_design_ms |-> Round4(Exp(lnu_design)),
      A_column_m2 |-> Round4(Exp(lnA)),
      D_column_m  |-> Round4(Exp((LnInt(4) + lnA - LnInt(3141593) + 6 * LN10) \div 2)) ]

\* column_diameter: u_design = f u_flood, A = Q / u_design, D = sqrt(4 A / pi)
column_diameter(lnQ_gas, lnu_flood, flooding_fraction) ==
    column_sizes(lnQ_gas - (LnInt(flooding_fraction) - 2 * LN10 + lnu_flood),
                 LnInt(flooding_fraction) - 2 * LN10 + lnu_flood)

\* pressure_drop_irrigated, in 0.1 Pa/m:
\* C1 F_p rho_G u_G^2 (1 + C2 sqrt(L / G)) (mu_L / 0.001)^0.1, C1 = 0.04, C2 = 0.40
pressure_drop_irrigated(u_G, F_p, lnrho_G, lnL, lnG, lnmu_L) ==
    ExpInt(LnInt(4) - 2 * LN10 + LnInt(F_p) + lnrho_G + 2 * Ln(u_G)
             + Ln(SC + Mul(400000, Exp((lnL - lnG) \div 2)))
             + mu_correction(lnmu_L) + LN10)

\* minimum_wetting_rate: ln MWR, MWR = 0.08 (mu_L / (rho_L sigma))^(1/3) / a_p^(2/3)
minimum_wetting_rate(a_p, sigma, lnmu_L, rho_L) ==
    LnInt(8) - 2 * LN10 + (lnmu_L - LnInt(rho_L) - (LnInt(sigma) - 3 * LN10)) \div 3
      - (2 * LnInt(a_p)) \div 3

\* design_column after column_diameter: the pressure drop at the rounded
\* u_design, the wetting check at the rounded A_column, and the result dict
design_column_result(lnG, lnL, lnrho_G, rho_L, packing, flooding_fraction, lnmu_L, sigma, lnu_flood, sizing) ==
    IF sizing.u_design_ms <= 0 THEN [err |-> "u_G, F_p, rho_G must all be positive"]
    ELSE IF packing.specific_area <= 0 THEN [err |-> "Specific area must be positive"]
    ELSE [ err |-> "none",
           u_flood_ms |-> Round4(Exp(lnu_flood)),
           flooding_fraction |-> flooding_fraction,
           u_design_ms |-> sizing.u_design_ms,
           A_column_m2 |-> sizing.A_column_m2,
           D_column_m |-> sizing.D_column_m,
           pressure_drop_Pa_m |->
               pressure_drop_irrigated(sizing.u_design_ms, packing.packing_factor,
                                       lnrho_G, lnL, lnG, lnmu_L),
           wetting_adequate |->
               lnL - LnInt(rho_L) - Ln(sizing.A_column_m2)
                 >= minimum_wetting_rate(packing.specific_area, sigma, lnmu_L, rho_L) ]

\* design_column from the flooding velocity on
design_column_sizing(lnG, lnL, lnrho_G, rho_L, packing, flooding_fraction, lnmu_L, sigma, lnu_flood) ==
    design_column_result(lnG, lnL, lnrho_G, rho_L, packing, flooding_fraction, lnmu_L,
                         sigma, lnu_flood,
                         column_diameter(lnG - lnrho_G, lnu_flood, flooding_fraction))

\* design_column once the gas density rho_G = e^lnrho_G is at hand: the
\* density and flooding-fraction checks of flooding_velocity and column_diameter
design_column_flood(lnG, lnL, rho_G, lnrho_G, rho_L, packing, flooding_fraction, lnmu_L, sigma) ==
    IF rho_L * SC <= rho_G THEN [err |-> "Liquid density must exceed gas density"]
    ELSE IF ~(10 <= flooding_fraction /\ flooding_fraction <= 95)
         THEN [err |-> "Flooding fraction should be 0.1-0.95"]
    ELSE design_column_sizing(lnG, lnL, lnrho_G, rho_L, packing, flooding_fraction,
                              lnmu_L, sigma,
                              flooding_velocity(packing.packing_factor, rho_G, lnrho_G,
                                  rho_L, lnmu_L,
                                  flow_parameter(lnL, lnG, lnrho_G, LnInt(rho_L))))

\* column_hydraulics.design_column; lnrho_G is ln(rho_G).  The result carries
\* err = "none" or the ValueError raised
design_column(G_mass, L_mass, lnrho_G, rho_L, packing, flooding_fraction, mu_L, sigma) ==
    IF G_mass <= 0 THEN [err |-> "Gas mass flow rate must be positive"]
    ELSE IF rho_L <= 0 THEN [err |-> "Liquid density must be positive"]
    ELSE IF packing.packing_factor <= 0 THEN [err |-> "Packing factor must be positive"]
    ELSE design_column_flood(LnG(G_mass), LnL(L_mass), Exp(lnrho_G), lnrho_G, rho_L,
                             packing, flooding_fraction, LnMu(mu_L), sigma)

\* ------------------------------------------------------------------------
\* System preparation (scrubber._prepare_system)
\* ------------------------------------------------------------------------

\* sum of mol_percent over the first n entries of a gas mixture
\* a total that is 100 % whatever the mixture
total_mol_nominal(gas_mixture, n) == 1000

RECURSIVE total_mol(_, _)
total_mol(gas_mixture, n) ==
    IF n = 0 THEN 0 ELSE gas_mixture[n].mol_percent + total_mol(gas_mixture, n - 1)

\* mixture_MW * SC accumulated over the first n entries (mw in mg/mol)
RECURSIVE mixture_MW(_, _)
mixture_MW(gas_mixture, n) ==
    IF n = 0 THEN 0
    ELSE gas_mixture[n].mol_percent * get_compound(gas_mixture[n].name).mw
           + mixture_MW(gas_mixture, n - 1)

\* one entry of the resolved component list
component_of(entry, comp) ==
    [ name |-> comp.name, id |-> comp.name, mw |-> comp.mw, category |-> comp.category,
      mol_percent |-> entry.mol_percent, mol_fraction |-> entry.mol_percent * SCH ]

\* the resolved component list built by the loop of _prepare_system
components_of(gas_mixture) ==
    [i \in 1..Len(gas_mixture) |->
        component_of(gas_mixture[i], get_compound(gas_mixture[i].name))]

\* 1 / (wt_frac / solvent_mw + (1 - wt_frac) / _MW_WATER), in mg/mol
solution_MW(solvent_mw, solvent_wt_pct) ==
    RDiv(SC * SCH, RDiv(solvent_wt_pct * 10 * SC, solvent_mw)
                     + RDiv((100 - solvent_wt_pct) * 10 * SC, _MW_WATER))

\* the molar mass of the solvent record, 18.015 without one
solvent_mw_of(solvent_comp) == IF solvent_comp.found THEN solvent_comp.mw ELSE _MW_WATER

\* effective molar mass of the solvent solution [mg/mol]
MW_eff_of(solvent_name, solvent_wt_pct) ==
    IF solvent_wt_pct < 100 /\ _solvent_id(solvent_name) \in {"MEA", "MDEA"}
    THEN solution_MW(solvent_mw_of(get_compound(solvent_name)), solvent_wt_pct)
    ELSE solvent_mw_of(get_compound(solvent_name))

\* the context dict _prepare_system returns
prepare_context(req, L_mass_kgs, packing, MW, lnrho_G, hyd_result, MW_eff) ==
    IF hyd_result.err # "none" THEN [err |-> hyd_result.err]
    ELSE [ err |-> "none",
           T_K |-> req.T_celsius * 100 + 27315,
           lnP_Pa |-> LnInt(req.P_bar),
           packing |-> packing,
           components |-> components_of(req.gas_mixture),
           mixture_MW |-> MW,
           lnrho_G |-> lnrho_G,
           rho_L_kgm3 |-> req.rho_L_kgm3,
           hyd_result |-> hyd_result,
           A_column |-> hyd_result.A_column_m2,
           solv_id |-> _solvent_id(req.solvent_name),
           lnG_mol |-> LnInt(req.G_mass_kgs) - Ln(MW),
           lnL_mol |-> LnInt(L_mass_kgs) + 2 * LN10 - LnInt(MW_eff),
           G_mass_kgs |-> req.G_mass_kgs,
           L_mass_kgs |-> L_mass_kgs,
           mu_L_Pas |-> req.mu_L_Pas,
           solvent_wt_pct |-> req.solvent_wt_pct,
           MW_eff |-> MW_eff ]

\* _prepare_system from the gas density on: the hydraulic design
prepare_hydraulics(req, L_mass_kgs, packing, MW, lnrho_G) ==
    prepare_context(req, L_mass_kgs, packing, MW, lnrho_G,
                    design_column(req.G_mass_kgs, L_mass_kgs, lnrho_G, req.rho_L_kgm3,
                                  packing, req.flooding_fraction, req.mu_L_Pas,
                                  req.sigma_Nm),
                    MW_eff_of(req.solvent_name, req.solvent_wt_pct))

\* _prepare_system from the mixture molar mass on: rho_G = P MW / (R T)
prepare_gas(req, L_mass_kgs, packing, MW) ==
    prepare_hydraulics(req, L_mass_kgs, packing, MW,
                       LnInt(req.P_bar) + Ln(MW) - 3 * LN10 - LnR_GAS
                         - (LnInt(req.T_celsius * 100 + 27315) - 2 * LN10))

\* _prepare_system: the context of one analysis at liquid rate L_mass_kgs
_prepare_system(req, L_mass_kgs) ==
    IF ~get_packing(req.packing_name).found THEN [err |-> "Packing not found in database"]
    ELSE IF Abs(total_mol(req.gas_mixture, Len(req.gas_mixture)) - 1000) > 10
         THEN [err |-> "Gas mixture mol% sum must be ~100%"]
    ELSE IF \E i \in 1..Len(req.gas_mixture) : ~get_compound(req.gas_mixture[i].name).found
         THEN [err |-> "Compound not found in database"]
    ELSE prepare_gas(req, L_mass_kgs, get_packing(req.packing_name),
                     mixture_MW(req.gas_mixture, Len(req.gas_mixture)))

\* ------------------------------------------------------------------------
\* Mass-transfer primitives (engine.thermo.mass_transfer)
\* ------------------------------------------------------------------------

\* scrubber.henry_at_T: ln H(T) = ln H_ref + (-dH_sol / R) (1/T - 1/T_ref),
\* with 1/T - 1/T_ref taken as (T_ref - T) / (T T_ref); temperatures in 0.01 K
henry_at_T(H_pa_ref, dH_sol, T_ref_K, T_K) ==
    LET x == (-dH_sol) * (T_ref_K - T_K)
        lnabs == LnInt(Abs(x)) - 2 * LN10 - LnR_GAS
                   - (LnInt(T_K) - 2 * LN10) - (LnInt(T_ref_K) - 2 * LN10)
    IN  LnInt(H_pa_ref) + (IF x = 0 THEN 0 ELSE Sgn(x) * Exp(lnabs))

\* the ValueError of a Kremser function
KremserError == [ok |-> FALSE, NTU |-> 0, y_out |-> 0]

\* kremser_NTU from arg = ratio (1 - 1/A) + 1/A: ln(arg) / ln(A)
kremser_NTU_log(ratio, lnA, arg) ==
    IF arg <= 0 THEN KremserError
    ELSE IF lnA = 0 THEN [ok |-> TRUE, NTU |-> ratio - SC]
    ELSE [ok |-> TRUE, NTU |-> Div(Ln(arg), lnA)]

\* kremser_NTU from ratio = y_in / y_out and 1/A
kremser_NTU_arg(ratio, lnA, invA) ==
    kremser_NTU_log(ratio, lnA, Mul(ratio, SC - invA) + invA)

\* mass_transfer.kremser_NTU on (y_in, y_out, A) with ln A alongside;
\* ok = FALSE stands for the ValueError
kremser_NTU(y_in, y_out, A, lnA) ==
    IF y_in <= 0 \/ y_out <= 0 \/ y_out >= y_in \/ A <= 0 THEN KremserError
    ELSE IF Abs(A - SC) < 1 THEN [ok |-> TRUE, NTU |-> DivU(y_in, y_out) - SC]
    ELSE kremser_NTU_arg(DivU(y_in, y_out), lnA, Exp(-lnA))

\* y_in (A - 1) / (A^(NTU+1) - 1) for A > 1, numerator and denominator divided
\* by A^(NTU+1) so that the power stays in range: p = A^-NTU, q = A^-(NTU+1)
kremser_y_out_gt1(y_in, p, q) ==
    [ok |-> TRUE, y_out |-> IF q >= SC THEN y_in ELSE DivU(Mul(p - q, y_in), SC - q)]

\* y_in (1 - A) / (1 - A^(NTU+1)) for A < 1: q = A^(NTU+1)
kremser_y_out_lt1(y_in, A, q) ==
    [ok |-> TRUE, y_out |-> IF q >= SC THEN y_in ELSE DivU(Mul(SC - A, y_in), SC - q)]

\* kremser_y_out from e = (NTU + 1) ln A
kremser_y_out_pow(y_in, A, lnA, e) ==
    IF e > 0 THEN kremser_y_out_gt1(y_in, Exp(lnA - e), Exp(-e))
    ELSE kremser_y_out_lt1(y_in, A, Exp(e))

\* kremser_y_out without its special case for A = 1
kremser_y_out_general(y_in, A, lnA, NTU) ==
    IF y_in <= 0 \/ A <= 0 \/ NTU < 0 THEN KremserError
    ELSE kremser_y_out_pow(y_in, A, lnA, Mul(NTU + SC, lnA))

\* mass_transfer.kremser_y_out; ok = FALSE stands for the ValueError
kremser_y_out(y_in, A, lnA, NTU) ==
    IF y_in <= 0 \/ A <= 0 \/ NTU < 0 THEN KremserError
    ELSE IF Abs(A - SC) < 1 \/ lnA = 0
         THEN [ok |-> TRUE, y_out |-> DivU(y_in, SC + NTU)]
    ELSE kremser_y_out_pow(y_in, A, lnA, Mul(NTU + SC, lnA))

\* ln(mu_G), mu_G = 1.8e-5 Pa s as the analyzer passes it
Lnmu_G == LnInt(18) - 6 * LN10

\* mass_transfer.onda_kG_a: ln(kG a) from ln(G_mass_flux), ln a_p, ln D_G,
\* ln rho_G, ln d_nom:  kG = 5.23 a_p D_G Re^0.7 Sc^(1/3) (a_p d_p)^-2, a_w = 0.8 a_p
onda_kG_a(lnG_mass_flux, lna_p, lnD_G, lnrho_G, lnd_nom) ==
    LnInt(523) - 2 * LN10 + lna_p + lnD_G
      + (7 * (lnG_mass_flux - lna_p - Lnmu_G)) \div 10
      + (Lnmu_G - lnrho_G - lnD_G) \div 3
      - 2 * (lna_p + lnd_nom)
      + LnInt(8) - LN10 + lna_p

\* mass_transfer.onda_kL_a: ln(kL a):
\* kL = 0.0051 (rho_L / (mu_L g))^(-1/3) Re^(2/3) Sc^(-1/2) (a_p d_p)^0.4
onda_kL_a(lnL_mass_flux, lna_p, lnD_L, lnmu_L, lnrho_L, lnd_nom) ==
    LnInt(51) - 4 * LN10
      - (lnrho_L - lnmu_L - Lng_ACCEL) \div 3
      + (2 * (lnL_mass_flux - lna_p - lnmu_L)) \div 3
      - (lnmu_L - lnrho_L - lnD_L) \div 2
      + (4 * (lna_p + lnd_nom)) \div 10
      + LnInt(8) - LN10 + lna_p

\* mass_transfer.overall_HTU: H_OG = H_G + lambda H_L, with
\* c_G = P / (8.314 * 298.15) and c_total_L = 55500
overall_HTU(lnG_mol_flux, lnL_mol_flux, lnm, lnkG_a, lnkL_a, lnP_total) ==
    Exp(lnG_mol_flux - lnkG_a - (lnP_total - LnR_GAS - (LnInt(29815) - 2 * LN10)))
      + Exp(lnm + lnG_mol_flux - lnL_mol_flux + lnL_mol_flux - lnkL_a - LnInt(55500))

\* ------------------------------------------------------------------------
\* Multi-component analyzer (scrubber._compute_acid_gas_analysis)
\* ------------------------------------------------------------------------

\* round(x, 3) of a fixed-point number
Round3(x) == RDiv(x, SCH) * SCH

\* ln E_db, ln D_G, ln D_L of a kinetics record, or the defaults 1.0, 1.5e-5, 1.5e-9
lnE_db(kinetics) == IF kinetics.found THEN LnInt(kinetics.enhancement_factor_E) ELSE 0

lnD_G_val(kinetics) == IF kinetics.found THEN kinetics.lnD_G ELSE LnInt(15) - 6 * LN10

lnD_L_val(kinetics) == IF kinetics.found THEN kinetics.lnD_L ELSE LnInt(15) - 10 * LN10

\* ln E: E_db scaled by the actual wt% over the reference wt% of the solvent
enhancement(kinetics, ref_wt, solvent_wt_pct) ==
    IF ref_wt # 0 /\ solvent_wt_pct < 100
    THEN lnE_db(kinetics) + LnInt(solvent_wt_pct) - LnInt(ref_wt)
    ELSE lnE_db(kinetics)

\* ln d_nom: nominal_size_mm / 1000, or 4 void_fraction / specific_area
nominal_size(packing) ==
    IF packing.nominal_size_mm > 0 THEN LnInt(packing.nominal_size_mm) - 3 * LN10
    ELSE LnInt(4) + LnInt(packing.void_fraction) - 2 * LN10 - LnInt(packing.specific_area)

\* a variant of removal_is_capped that caps every species with A < 1
removal_is_capped_below_one(A, removal_frac) == A < SC

\* removal_capped: A < 1 and the target above 0.95 A
removal_is_capped(A, removal_frac) == A < SC /\ removal_frac > Mul(A, 950000)

\* y_in (1 - removal_frac), or y_in * 0.001 where that is not positive
y_out_uncapped(y_in, y_out_target) ==
    IF y_out_target <= 0 THEN RDiv(y_in, 1000) ELSE y_out_target

\* the entry appended to acid_gas_results for a component with Henry data;
\* NTU_full is the NTU local of the loop, which the dominance tracking reads
component_entry(comp, lnm_eff, lnA, A, removal_frac, removal_capped, NTU, H_OG, Z_comp) ==
    [ name |-> comp.name,
      mol_percent |-> comp.mol_percent,
      mol_fraction |-> comp.mol_fraction,
      status |-> "calculated",
      m_eq |-> Exp(lnm_eff),
      A_factor |-> Round4(A),
      NTU |-> Round3(NTU),
      H_OG_m |-> Round4(H_OG),
      Z_required_m |-> Round3(Z_comp),
      target_removal_pct |-> RDiv(removal_frac, 100),
      removal_capped |-> removal_capped,
      NTU_full |-> NTU,
      A_full |-> A,
      lnA_full |-> lnA,
      H_OG_full |-> H_OG,
      lnm_eff_full |-> lnm_eff ]

\* Z_comp = H_OG * NTU if NTU > 0 else 0.0
component_height(comp, lnm_eff, lnA, A, removal_frac, removal_capped, NTU, H_OG) ==
    component_entry(comp, lnm_eff, lnA, A, removal_frac, removal_capped, NTU, H_OG,
                    IF NTU > 0 THEN Mul(H_OG, NTU) ELSE 0)

\* NTU of a kremser_NTU outcome: 0.0 where it raised
NTU_of(k) == IF k.ok THEN k.NTU ELSE 0

\* H_OG from the Onda correlations at the fluxes through A_column
component_H_OG(ctx, kinetics, lnE, lnm_eff, lnA_column, lna_p, lnd_nom) ==
    overall_HTU(ctx.lnG_mol - lnA_column, ctx.lnL_mol - lnA_column, lnm_eff,
                onda_kG_a(LnG(ctx.G_mass_kgs) - lnA_column, lna_p, lnD_G_val(kinetics),
                          ctx.lnrho_G, lnd_nom),
                onda_kL_a(LnL(ctx.L_mass_kgs) - lnA_column, lna_p, lnD_L_val(kinetics),
                          LnMu(ctx.mu_L_Pas), LnInt(ctx.rho_L_kgm3), lnd_nom) + lnE,
                ctx.lnP_Pa)

\* the loop body from the target on: NTU by Kremser, H_OG by Onda
component_sizing(ctx, comp, kinetics, lnE, lnm_eff, lnA, A, removal_frac, removal_capped, y_out_target) ==
    component_height(comp, lnm_eff, lnA, A, removal_frac, removal_capped,
                     NTU_of(kremser_NTU(comp.mol_fraction, y_out_target, A, lnA)),
                     component_H_OG(ctx, kinetics, lnE, lnm_eff, Ln(ctx.A_column),
                                    LnInt(ctx.packing.specific_area),
                                    nominal_size(ctx.packing)))

\* the loop body from the capping decision on
component_capped(ctx, comp, kinetics, lnE, lnm_eff, lnA, A, removal_frac, capped) ==
    IF capped
    THEN component_sizing(ctx, comp, kinetics, lnE, lnm_eff, lnA, A, Mul(A, 900000), TRUE,
                          Mul(comp.mol_fraction, SC - Mul(A, 900000)))
    ELSE component_sizing(ctx, comp, kinetics, lnE, lnm_eff, lnA, A, removal_frac, FALSE,
                          y_out_uncapped(comp.mol_fraction,
                                         Mul(comp.mol_fraction, SC - removal_frac)))

\* the loop body from the absorption factor A = L_mol / (m_eff G_mol) on
component_target(ctx, comp, removal_frac, kinetics, lnE, lnm_eff, lnA, A) ==
    component_capped(ctx, comp, kinetics, lnE, lnm_eff, lnA, A, removal_frac,
                     removal_is_capped(A, removal_frac))

\* the loop body from m_eff = H_pa_T / (E P_Pa) on
component_absorption(ctx, comp, removal_frac, kinetics, lnE, lnm_eff) ==
    component_target(ctx, comp, removal_frac, kinetics, lnE, lnm_eff,
                     ctx.lnL_mol - lnm_eff - ctx.lnG_mol,
                     Exp(ctx.lnL_mol - lnm_eff - ctx.lnG_mol))

\* the loop body from the enhancement factor on
component_equilibrium(ctx, comp, removal_frac, henry, kinetics, lnE) ==
    component_absorption(ctx, comp, removal_frac, kinetics, lnE,
                         henry_at_T(henry.H_pa, henry.dH_sol, henry.T_ref, ctx.T_K)
                           - lnE - ctx.lnP_Pa)

\* the loop body from the kinetics lookup on
component_kinetics(ctx, comp, removal_frac, henry, kinetics) ==
    component_equilibrium(ctx, comp, removal_frac, henry, kinetics,
                          enhancement(kinetics, _SOLVENT_REF_WT(ctx.solv_id),
                                      ctx.solvent_wt_pct))

\* the body of the per-component loop for one acid-gas component with Henry
\* data: the entry appended to acid_gas_results
analyze_component(ctx, comp, removal_target_pct) ==
    component_kinetics(ctx, comp, removal_target_pct * (SC \div 100), get_henry(comp.id),
                       get_kinetics(comp.id, ctx.solv_id))

\* a variant of no_henry_entry that marks the species calculated
no_henry_entry_calculated(comp) ==
    [ name |-> comp.name,
      mol_percent |-> comp.mol_percent,
      mol_fraction |-> comp.mol_fraction,
      status |-> "calculated",
      m_eq |-> 0, A_factor |-> 0, NTU |-> 0, H_OG_m |-> 0,
      Z_required_m |-> 0, target_removal_pct |-> 0,
      removal_capped |-> FALSE, NTU_full |-> 0, A_full |-> 0, lnA_full |-> 0,
      H_OG_full |-> 0, lnm_eff_full |-> 0 ]

\* the entry appended for an acid gas without Henry data
no_henry_entry(comp) ==
    [ name |-> comp.name,
      mol_percent |-> comp.mol_percent,
      mol_fraction |-> comp.mol_fraction,
      status |-> "no_henry_data",
      m_eq |-> 0, A_factor |-> 0, NTU |-> 0, H_OG_m |-> 0,
      Z_required_m |-> 0, target_removal_pct |-> 0,
      removal_capped |-> FALSE, NTU_full |-> 0, A_full |-> 0, lnA_full |-> 0,
      H_OG_full |-> 0, lnm_eff_full |-> 0 ]

\* the end of the loop body: append r and track the dominant component
analysis_track(acc, comp, r) ==
    IF /\ r.NTU_full > 0
       /\ r.H_OG_full > 0
       /\ Mul(r.H_OG_full, r.NTU_full)
            > (IF acc.dominant_component # "None" THEN Mul(acc.max_NTU, acc.max_HOG) ELSE 0)
    THEN [acid_gas_results |-> Append(acc.acid_gas_results, r),
          max_NTU |-> r.NTU_full, max_HOG |-> r.H_OG_full,
          dominant_component |-> comp.name]
    ELSE [acc EXCEPT !.acid_gas_results = Append(@, r)]

\* one pass of the per-component loop
analysis_step(ctx, removal_target_pct, acc, comp) ==
    IF comp.category # "acid_gas" THEN acc
    ELSE IF ~get_henry(comp.id).found
         THEN [acc EXCEPT !.acid_gas_results = Append(@, no_henry_entry(comp))]
    ELSE analysis_track(acc, comp, analyze_component(ctx, comp, removal_target_pct))

\* the per-component loop over components[1..n]: the accumulated
\* acid_gas_results, max_NTU, max_HOG and dominant_component
RECURSIVE analysis_loop(_, _, _)
analysis_loop(ctx, removal_target_pct, n) ==
    IF n = 0
    THEN [acid_gas_results |-> << >>, max_NTU |-> 0, max_HOG |-> 0,
          dominant_component |-> "None"]
    ELSE analysis_step(ctx, removal_target_pct,
                       analysis_loop(ctx, removal_target_pct, n - 1), ctx.components[n])

\* a variant of max_Z_required that takes the smallest Z_required_m
RECURSIVE min_Z_required(_, _)
min_Z_required(acid_gas_results, n) ==
    IF n = 0 THEN 0
    ELSE IF n = 1 THEN acid_gas_results[1].Z_required_m
    ELSE Min(acid_gas_results[n].Z_required_m, min_Z_required(acid_gas_results, n - 1))

\* max of Z_required_m over the entries with a truthy Z_required_m (default 0)
RECURSIVE max_Z_required(_, _)
max_Z_required(acid_gas_results, n) ==
    IF n = 0 THEN 0
    ELSE Max(acid_gas_results[n].Z_required_m, max_Z_required(acid_gas_results, n - 1))

\* a variant of first_calculated that does not compare the names
first_calculated_any(acid_gas_results, name) ==
    LET hits == {i \in 1..Len(acid_gas_results) : acid_gas_results[i].status = "calculated"}
    IN  IF hits = {} THEN 0 ELSE CHOOSE i \in hits : \A j \in hits : i <= j

\* the index of the first calculated entry named `name`, as next(...) finds
\* it (0: None)
first_calculated(acid_gas_results, name) ==
    LET hits == {i \in 1..Len(acid_gas_results) :
                    /\ acid_gas_results[i].name = name
                    /\ acid_gas_results[i].status = "calculated"}
    IN  IF hits = {} THEN 0 ELSE CHOOSE i \in hits : \A j \in hits : i <= j

\* a variant of design_height that ignores the pinned target component
design_height_unpinned(acc, target_component, t) ==
    [acid_gas_results |-> acc.acid_gas_results,
     Z_design |-> max_Z_required(acc.acid_gas_results, Len(acc.acid_gas_results)),
     max_NTU |-> acc.max_NTU, max_HOG |-> acc.max_HOG,
     dominant_component |-> acc.dominant_component]

\* the design height selection at the end of _compute_acid_gas_analysis;
\* t is the index of target_ag (0: None)
design_height(acc, target_component, t) ==
    IF target_component # "None" /\ t # 0 /\ acc.acid_gas_results[t].Z_required_m # 0
    THEN [acid_gas_results |-> acc.acid_gas_results,
          Z_design |-> acc.acid_gas_results[t].Z_required_m,
          max_NTU |-> acc.max_NTU, max_HOG |-> acc.max_HOG,
          dominant_component |-> target_component]
    ELSE [acid_gas_results |-> acc.acid_gas_results,
          Z_design |-> max_Z_required(acc.acid_gas_results, Len(acc.acid_gas_results)),
          max_NTU |-> acc.max_NTU, max_HOG |-> acc.max_HOG,
          dominant_component |-> acc.dominant_component]

\* the loop's outcome handed to the height selection
analysis_select(acc, target_component) ==
    design_height(acc, target_component,
                  first_calculated(acc.acid_gas_results, target_component))

\* _compute_acid_gas_analysis: the loop, then the design height selection
_compute_acid_gas_analysis(ctx, removal_target_pct, target_component) ==
    analysis_select(analysis_loop(ctx, removal_target_pct, Len(ctx.components)),
                    target_component)

\* ------------------------------------------------------------------------
\* Back-calculation at the design height (scrubber._backcalc_at_height)
\* The operating-line plot data ("lines") is not modelled.
\* ------------------------------------------------------------------------

\* a variant of passthrough_entry that removes the component entirely
passthrough_entry_removed(comp) ==
    [ ok |-> TRUE,
      back_calculated |-> FALSE,
      name |-> comp.name,
      inlet_mol_pct |-> comp.mol_percent,
      outlet_mol_frac |-> 0,
      removal_pct |-> 10000,
      absorbed_mol_s |-> 0 ]

\* the entry of a component that is not back-calculated: it passes through
passthrough_entry(comp) ==
    [ ok |-> TRUE,
      back_calculated |-> FALSE,
      name |-> comp.name,
      inlet_mol_pct |-> comp.mol_percent,
      outlet_mol_frac |-> comp.mol_fraction,
      removal_pct |-> 0,
      absorbed_mol_s |-> 0 ]

\* the entry of a back-calculated component from the outcome k of
\* kremser_y_out; ok = FALSE stands for its ValueError.  removal_pct in 0.01 %
kremser_entry(ctx, comp, k) ==
    [ ok |-> k.ok,
      back_calculated |-> TRUE,
      name |-> comp.name,
      inlet_mol_pct |-> comp.mol_percent,
      outlet_mol_frac |-> k.y_out,
      removal_pct |-> IF k.ok /\ comp.mol_fraction > 0
                      THEN SRDiv(Div(comp.mol_fraction - k.y_out, comp.mol_fraction), 100)
                      ELSE 0,
      absorbed_mol_s |-> IF k.ok THEN Mul(comp.mol_fraction - k.y_out, Exp(ctx.lnG_mol))
                         ELSE 0 ]

\* the loop body of _backcalc_at_height for one component; i is the index of
\* its calculated entry ag in acid_gas_results (0: None)
backcalc_entry(ctx, acid_gas_results, Z_design, comp, i) ==
    IF i # 0 /\ acid_gas_results[i].H_OG_full > 0 /\ Z_design > 0
    THEN kremser_entry(ctx, comp,
                       kremser_y_out(comp.mol_fraction, acid_gas_results[i].A_full,
                                     acid_gas_results[i].lnA_full,
                                     DivU(Z_design, acid_gas_results[i].H_OG_full)))
    ELSE passthrough_entry(comp)

\* the exit_gas entry of one component (before normalisation)
backcalc_component(ctx, acid_gas_results, Z_design, comp) ==
    backcalc_entry(ctx, acid_gas_results, Z_design, comp,
                   first_calculated(acid_gas_results, comp.name))

\* sum of outlet_mol_frac over exit_gas[1..n]
RECURSIVE total_exit_mol_frac(_, _)
total_exit_mol_frac(exit_gas, n) ==
    IF n = 0 THEN 0 ELSE exit_gas[n].outlet_mol_frac + total_exit_mol_frac(exit_gas, n - 1)

\* one step of the dominant tracking: component n with required height z_req
dominant_step(acc, entry, z_req) ==
    IF entry.back_calculated /\ z_req > 0
       /\ (acc.dominant_component = "None" \/ z_req > acc.dominant_removal)
    THEN [dominant_component |-> entry.name, dominant_removal |-> z_req]
    ELSE acc

\* the dominant component tracked by the loop over components[1..n]:
\* the back-calculated component with the highest Z_required_m > 0
RECURSIVE backcalc_dominant(_, _, _)
backcalc_dominant(acid_gas_results, exit_gas, n) ==
    IF n = 0 THEN [dominant_component |-> "None", dominant_removal |-> 0]
    ELSE dominant_step(backcalc_dominant(acid_gas_results, exit_gas, n - 1), exit_gas[n],
                       IF exit_gas[n].back_calculated
                       THEN acid_gas_results[first_calculated(acid_gas_results,
                                                              exit_gas[n].name)].Z_required_m
                       ELSE 0)

\* the exit_gas entry after normalisation: outlet_mol_pct added (fixed-point
\* fraction of the total, 0 with a zero total)
normalised_entry(g, total) ==
    [ name |-> g.name,
      inlet_mol_pct |-> g.inlet_mol_pct,
      outlet_mol_frac |-> g.outlet_mol_frac,
      removal_pct |-> g.removal_pct,
      absorbed_mol_s |-> g.absorbed_mol_s,
      outlet_mol_pct |-> IF total > 0 THEN DivU(g.outlet_mol_frac, total) ELSE 0 ]

\* _backcalc_at_height after the component loop
backcalc_normalise(acid_gas_results, raw, n) ==
    IF \E i \in 1..n : ~raw[i].ok
    THEN [err |-> "y_in must be positive"]
    ELSE [ err |-> "none",
           exit_gas |-> [i \in 1..n |-> normalised_entry(raw[i], total_exit_mol_frac(raw, n))],
           total_absorbed_mol_s |-> SumSeq([i \in 1..n |-> raw[i].absorbed_mol_s], n),
           dominant_component |->
               backcalc_dominant(acid_gas_results, raw, n).dominant_component ]

\* _backcalc_at_height: exit_gas (normalised to mol%) and the dominant component
_backcalc_at_height(ctx, acid_gas_results, Z_design) ==
    backcalc_normalise(acid_gas_results,
                       [i \in 1..Len(ctx.components) |->
                           backcalc_component(ctx, acid_gas_results, Z_design,
                                              ctx.components[i])],
                       Len(ctx.components))

\* ------------------------------------------------------------------------
\* DOF solver (scrubber.design_scrubber, _compute_Z_for_L, _bisect_for_L)
\* ------------------------------------------------------------------------

\* _compute_Z_for_L after _prepare_system
Z_of_context(req, ctx) ==
    IF ctx.err # "none" THEN [err |-> ctx.err, Z |-> 0]
    ELSE [err |-> "none",
          Z |-> _compute_acid_gas_analysis(ctx, req.removal_target_pct,
                                           req.target_component).Z_design]

\* _compute_Z_for_L: Z_design at liquid rate L_mass_kgs, or the error
_compute_Z_for_L(req, L_mass_kgs) == Z_of_context(req, _prepare_system(req, L_mass_kgs))

\* the entry of exit_gas named `name`, as next(...) finds it (0: None)
first_exit(exit_gas, name) ==
    LET hits == {i \in 1..Len(exit_gas) : exit_gas[i].name = name}
    IN  IF hits = {} THEN 0 ELSE CHOOSE i \in hits : \A j \in hits : i <= j

\* the result dict; computed_removal_pct is -1 for None, as are the
\* mode-L fields outside mode L
design_report(req, bis, ctx, ana, Z_design, bc, dominant_component, computed_removal_pct) ==
    [ err |-> "none",
      removal_target_pct |-> IF req.solve_for = "eta" THEN computed_removal_pct
                             ELSE req.removal_target_pct * 100,
      mixture_MW |-> RDiv(ctx.mixture_MW, SCH),
      lnL_mol_per_s |-> ctx.lnL_mol,
      D_column_m |-> ctx.hyd_result.D_column_m,
      A_column_m2 |-> ctx.hyd_result.A_column_m2,
      Z_design_m |-> Round3(Z_design),
      Z_hetp_m |-> IF ana.max_NTU > 0
                   THEN Round3(MulU(ana.max_NTU, ctx.packing.hetp * SCH)) ELSE 0,
      dominant_component |-> dominant_component,
      u_flood_ms |-> ctx.hyd_result.u_flood_ms,
      u_design_ms |-> ctx.hyd_result.u_design_ms,
      dP_per_m_Pa |-> ctx.hyd_result.pressure_drop_Pa_m,
      dP_total_Pa |-> IF Z_design > 0
                      THEN MulU(ctx.hyd_result.pressure_drop_Pa_m, Z_design) ELSE 0,
      wetting_adequate |-> ctx.hyd_result.wetting_adequate,
      acid_gas_analysis |-> ana.acid_gas_results,
      exit_gas |-> bc.exit_gas,
      total_absorbed_mol_s |-> bc.total_absorbed_mol_s,
      solve_mode |-> req.solve_for,
      target_component |-> req.target_component,
      computed_removal_pct |-> computed_removal_pct,
      computed_L_kgs |-> IF req.solve_for = "L" THEN bis.L ELSE -1,
      bisection_converged |-> IF req.solve_for = "L" THEN bis.converged ELSE FALSE,
      bisection_iterations |-> IF req.solve_for = "L" THEN bis.iterations ELSE -1 ]

\* design_scrubber from the dominant component on: the removal of the
\* dominant component in mode eta; d is its index in exit_gas (0: None)
design_removal(req, bis, ctx, ana, Z_design, bc, dominant_component, d) ==
    design_report(req, bis, ctx, ana, Z_design, bc, dominant_component,
                  IF req.solve_for = "eta" /\ dominant_component # "None" /\ d # 0
                  THEN bc.exit_gas[d].removal_pct ELSE -1)

\* design_scrubber from the back-calculation's outcome on
design_dominant(req, bis, ctx, ana, Z_design, bc, dominant_component) ==
    design_removal(req, bis, ctx, ana, Z_design, bc, dominant_component,
                   first_exit(bc.exit_gas, dominant_component))

\* design_scrubber after _backcalc_at_height
design_assemble(req, bis, ctx, ana, Z_design, bc) ==
    IF bc.err # "none" THEN [err |-> bc.err]
    ELSE design_dominant(req, bis, ctx, ana, Z_design, bc,
                         IF bc.dominant_component # "None" /\ req.target_component = "None"
                         THEN bc.dominant_component ELSE ana.dominant_component)

\* design_scrubber from the choice of Z_design on
design_backcalc(req, bis, ctx, ana, Z_design) ==
    design_assemble(req, bis, ctx, ana, Z_design,
                    _backcalc_at_height(ctx, ana.acid_gas_results, Z_design))

\* a variant of design_height_of that takes the analyzer's height in every mode
design_height_recomputed(req, bis, ctx, ana) ==
    design_backcalc(req, bis, ctx, ana, ana.Z_design)

\* design_scrubber after the analysis: Z_design is the analyzer's height in
\* mode Z and Z_packed_m in the modes eta and L
design_height_of(req, bis, ctx, ana) ==
    design_backcalc(req, bis, ctx, ana,
                    IF req.solve_for = "Z" THEN ana.Z_design ELSE req.Z_packed_m)

\* a variant of analysis_target that passes the caller's target in every mode
analysis_target_requested(req) == req.removal_target_pct

\* the removal target handed to the analyzer: the dummy 99.0 in mode eta
analysis_target(req) == IF req.solve_for = "eta" THEN 99 ELSE req.removal_target_pct

\* design_scrubber after _prepare_system: the analysis
design_analysis(req, bis, ctx) ==
    IF ctx.err # "none" THEN [err |-> ctx.err]
    ELSE design_height_of(req, bis, ctx,
             _compute_acid_gas_analysis(ctx, analysis_target(req), req.target_component))

\* design_scrubber after the mode-L bisection: prepare the system at
\* L_mass_kgs, analyse, back-calculate and assemble the result.
\* bis is the (L, converged, iterations) returned by _bisect_for_L in mode L.
design_result(req, L_mass_kgs, bis) ==
    design_analysis(req, bis, _prepare_system(req, L_mass_kgs))

\* tol of _bisect_for_L (0.001 m)
tol == 1000

\* max_iter of _bisect_for_L
max_iter == 50

\* The heights compared by the loop are doubles: round(Z, 3) and the caller's
\* Z_target.  Of the pairs (Z_mid, Z_target) one millimetre apart with
\* Z_target among the packed heights of this model, these are the ones whose
\* double-precision difference is below the double 0.001
\* (abs(0.051 - 0.05) = 0.000999999999999994).
FloatBelowTol == {<<51000, 50000>>}

\* abs(Z_mid - Z_target) < tol, as evaluated on the doubles
within_tol(Z_mid, Z_target) ==
    Abs(Z_mid - Z_target) < tol \/ <<Z_mid, Z_target>> \in FloatBelowTol

\* whether entry g of the mixture is one the max_m_eff loop does not skip: an
\* acid gas with Henry data
is_candidate(comp) ==
    comp.found /\ comp.category = "acid_gas" /\ get_henry(comp.name).found

\* the entries of the mixture the max_m_eff loop does not skip
bisect_candidates(gm) == {i \in 1..Len(gm) : is_candidate(get_compound(gm[i].name))}

\* ln(m_eff) from the Henry and kinetics records: H(T) / (E P), E the
\* enhancement factor of the kinetics record as stored (1.0 without a record)
lnm_eff_of(req, henry, kinetics) ==
    henry_at_T(henry.H_pa, henry.dH_sol, henry.T_ref, req.T_celsius * 100 + 27315)
      - lnE_db(kinetics) - LnInt(req.P_bar)

\* ln(m_eff) of entry i as the max_m_eff loop computes it
bisect_lnm_eff(req, i) ==
    lnm_eff_of(req, get_henry(req.gas_mixture[i].name),
               get_kinetics(req.gas_mixture[i].name, _solvent_id(req.solvent_name)))

\* ln(max_m_eff) over the candidates
bisect_lnmax_m_eff(req, cand) ==
    bisect_lnm_eff(req, CHOOSE i \in cand :
                            \A j \in cand : bisect_lnm_eff(req, i) >= bisect_lnm_eff(req, j))

\* ln(solvent_MW_kg): mw / 1000 of the solvent record, 0.018 without one
lnsolvent_MW_kg(solvent_comp) ==
    IF solvent_comp.found THEN LnInt(solvent_comp.mw) - 6 * LN10 ELSE LnInt(18) - 3 * LN10

\* L_min = 1.05 max_m_eff G_mol solvent_MW_kg, in 1e-4 kg/s
bisect_L_min(req, cand) ==
    ExpInt(Ln(1050000) + bisect_lnmax_m_eff(req, cand)
             + LnInt(req.G_mass_kgs) - Ln(mixture_MW(req.gas_mixture, Len(req.gas_mixture)))
             + lnsolvent_MW_kg(get_compound(req.solvent_name)) + 4 * LN10)

\* the search bounds: L_max = max(L_min * 100, 1000)
bisect_range(L_min_) == [err |-> "none", L_min |-> L_min_, L_max |-> Max(L_min_ * 100, 1000 * 10 ^ 4)]

\* the head of _bisect_for_L: the search bounds L_min and L_max [1e-4 kg/s],
\* or the ValueError raised before any Z(L) is evaluated
bisect_bounds(req) ==
    IF \E i \in 1..Len(req.gas_mixture) : ~get_compound(req.gas_mixture[i].name).found
    THEN [err |-> "Compound not found in database"]
    ELSE IF bisect_candidates(req.gas_mixture) = {}
         THEN [err |-> "No acid gas components with valid Henry's law data found"]
    ELSE bisect_range(bisect_L_min(req, bisect_candidates(req.gas_mixture)))

\* a variant of too_short that never finds the target infeasible
too_short_never(Z_at_max_, Z_target) == FALSE

\* the feasibility test after the two bound evaluations: Z_at_max > Z_target
too_short(Z_at_max_, Z_target) == Z_at_max_ > Z_target

\* the bracket chosen after the two bound evaluations
bisect_bracket(Z_at_min_, Z_target, L_min_, L_max_) ==
    IF Z_at_min_ < Z_target
    THEN [L_lo |-> L_min_ \div 2, L_hi |-> L_min_]
    ELSE [L_lo |-> L_min_, L_hi |-> L_max_]

\* a variant of bisect_update that raises L_lo whatever the height at L_mid
bisect_update_raising(b, Z_target, L_mid_, z) ==
    IF z.err # "none"
    THEN [b EXCEPT !.n_iter = @ + 1, !.L_mid = L_mid_, !.err = z.err]
    ELSE IF within_tol(z.Z, Z_target)
         THEN [b EXCEPT !.n_iter = @ + 1, !.L_mid = L_mid_, !.Z_mid = z.Z,
                        !.converged = TRUE]
    ELSE [b EXCEPT !.n_iter = @ + 1, !.L_mid = L_mid_, !.Z_mid = z.Z, !.L_lo = L_mid_]

\* the rest of one pass of the for loop, after Z_mid = _compute_Z_for_L(L_mid)
bisect_update(b, Z_target, L_mid_, z) ==
    IF z.err # "none"
    THEN [b EXCEPT !.n_iter = @ + 1, !.L_mid = L_mid_, !.err = z.err]
    ELSE IF within_tol(z.Z, Z_target)
         THEN [b EXCEPT !.n_iter = @ + 1, !.L_mid = L_mid_, !.Z_mid = z.Z,
                        !.converged = TRUE]
    ELSE IF z.Z > Z_target
         THEN [b EXCEPT !.n_iter = @ + 1, !.L_mid = L_mid_, !.Z_mid = z.Z, !.L_lo = L_mid_]
    ELSE [b EXCEPT !.n_iter = @ + 1, !.L_mid = L_mid_, !.Z_mid = z.Z, !.L_hi = L_mid_]

\* one pass of the for loop: b holds L_lo, L_hi, L_mid, Z_mid, n_iter,
\* converged, err
bisect_iter(req, b) ==
    bisect_update(b, req.Z_packed_m, (b.L_lo + b.L_hi) \div 2,
                  _compute_Z_for_L(req, (b.L_lo + b.L_hi) \div 2))

\* a variant of loop_runs without the cap of max_iter passes
loop_runs_uncapped(n_iter_, converged_) == ~converged_

\* a variant of loop_runs without the break on convergence
loop_runs_unbroken(n_iter_, converged_) == n_iter_ < max_iter

\* whether the for loop makes another pass: no break yet and range(1, max_iter + 1)
\* not exhausted
loop_runs(n_iter_, converged_) == ~converged_ /\ n_iter_ < max_iter

\* the for loop run to its end from the loop state b
RECURSIVE bisect_loop(_, _)
bisect_loop(req, b) ==
    IF b.err # "none" \/ ~loop_runs(b.n_iter, b.converged) THEN b
    ELSE bisect_loop(req, bisect_iter(req, b))

\* the loop state on entry to the for loop
bisect_entry(bracket) ==
    [L_lo |-> bracket.L_lo, L_hi |-> bracket.L_hi,
     L_mid |-> (bracket.L_lo + bracket.L_hi) \div 2,
     Z_mid |-> 0, n_iter |-> 0, converged |-> FALSE, err |-> "none"]

\* the return of _bisect_for_L from the final loop state
bisect_return(b) ==
    IF b.err # "none" THEN [err |-> b.err]
    ELSE [err |-> "none", L |-> b.L_mid, converged |-> b.converged, iterations |-> b.n_iter]

\* _bisect_for_L from the two bound evaluations on
bisect_search(req, bounds, Z_at_min_, Z_at_max_) ==
    IF Z_at_min_.err # "none" THEN [err |-> Z_at_min_.err]
    ELSE IF Z_at_max_.err # "none" THEN [err |-> Z_at_max_.err]
    ELSE IF too_short(Z_at_max_.Z, req.Z_packed_m)
         THEN [err |-> "Target height is too short"]
    ELSE bisect_return(bisect_loop(req, bisect_entry(
             bisect_bracket(Z_at_min_.Z, req.Z_packed_m, bounds.L_min, bounds.L_max))))

\* _bisect_for_L from the bounds on
bisect_evaluate(req, bounds) ==
    IF bounds.err # "none" THEN [err |-> bounds.err]
    ELSE bisect_search(req, bounds, _compute_Z_for_L(req, bounds.L_min),
                       _compute_Z_for_L(req, bounds.L_max))

\* _bisect_for_L as a function of the call: (L, converged, iterations), or err
_bisect_for_L(req) == bisect_evaluate(req, bisect_bounds(req))

\* the parameter validation at the head of design_scrubber ("none": accepted)
validate(req) ==
    IF req.solve_for \notin {"Z", "eta", "L"}
    THEN "solve_for must be 'Z', 'eta', or 'L'"
    ELSE IF req.solve_for \in {"eta", "L"} /\ (req.Z_packed_m = -1 \/ req.Z_packed_m <= 0)
         THEN "Z_packed_m must be a positive number"
    ELSE "none"

\* the (L, converged, iterations) slots of a call that runs no bisection
NoBisection == [L |-> -1, converged |-> FALSE, iterations |-> -1]

\* a variant of mode_L_rate that keeps the caller's L_mass_kgs
mode_L_rate_kept(L_mass_kgs_, L_result) == L_mass_kgs_

\* the L_mass_kgs of design_scrubber after the mode-L branch: rebound to L_result
mode_L_rate(L_mass_kgs_, L_result) == L_result

\* design_scrubber in mode L from the outcome of _bisect_for_L
design_at_L(req, bis) ==
    IF bis.err # "none" THEN [err |-> bis.err]
    ELSE design_result(req, mode_L_rate(req.L_mass_kgs, bis.L),
                       [L |-> bis.L, converged |-> bis.converged,
                        iterations |-> bis.iterations])

\* design_scrubber as a function of the call: the result record, or [err]
design_scrubber(req) ==
    IF validate(req) # "none" THEN [err |-> validate(req)]
    ELSE IF req.solve_for # "L" THEN design_result(req, req.L_mass_kgs, NoBisection)
    ELSE design_at_L(req, _bisect_for_L(req))

\* ------------------------------------------------------------------------
\* The scrubber-design endpoint (api.server.scrubber_design_endpoint)
\* ------------------------------------------------------------------------

\* the DOF checks of the endpoint: the detail of the HTTPException(400) raised
\* before design_scrubber is called ("none": the request goes on to the core)
api_reject(r) ==
    IF r.solve_for \notin {"Z", "eta", "L"} THEN "solve_for must be 'Z', 'eta', or 'L'"
    ELSE IF r.solve_for \in {"eta", "L"} /\ r.Z_packed_m = << >>
         THEN "Z_packed_m required for this solve mode"
    ELSE IF r.solve_for = "Z" /\ r.L_mass_kgs = << >>
         THEN "L_mass_kgs required when solving for Z"
    ELSE IF r.solve_for \in {"Z", "L"} /\ r.removal_target_pct = << >>
         THEN "removal_target_pct required for this solve mode"
    ELSE IF r.solve_for = "eta" /\ r.L_mass_kgs = << >>
         THEN "L_mass_kgs required when solving for eta"
    ELSE "none"

\* Python's `x or d` on an Optional number: d for None and for 0
or_default(x, d) == IF x = << >> THEN d ELSE IF x[1] = 0 THEN d ELSE x[1]

\* the arguments the endpoint calls design_scrubber with; target_component and
\* solvent_wt_pct are left at the defaults of design_scrubber
core_arguments(r) ==
    [ gas_mixture |-> r.gas_mixture, solvent_name |-> r.solvent_name,
      packing_name |-> r.packing_name,
      removal_target_pct |-> or_default(r.removal_target_pct, 90),
      G_mass_kgs |-> r.G_mass_kgs,
      L_mass_kgs |-> or_default(r.L_mass_kgs, 30000),
      T_celsius |-> r.T_celsius, P_bar |-> r.P_bar,
      flooding_fraction |-> r.flooding_fraction, mu_L_Pas |-> r.mu_L_Pas,
      sigma_Nm |-> r.sigma_Nm, rho_L_kgm3 |-> r.rho_L_kgm3,
      solve_for |-> r.solve_for,
      Z_packed_m |-> IF r.Z_packed_m = << >> THEN -1 ELSE r.Z_packed_m[1],
      target_component |-> "None", solvent_wt_pct |-> 100 ]
\* ------------------------------------------------------------------------
\* The calls explored: the arguments of one design_scrubber call
\* ------------------------------------------------------------------------

MixA == << [name |-> "N2", mol_percent |-> 850], [name |-> "CO2", mol_percent |-> 150] >>

MixB == << [name |-> "N2", mol_percent |-> 920], [name |-> "CO2", mol_percent |-> 50],
           [name |-> "H2S", mol_percent |-> 30] >>

\* an acid gas without Henry data only
MixC == << [name |-> "N2", mol_percent |-> 900], [name |-> "HCl", mol_percent |-> 100] >>

\* an acid gas without Henry data beside one with
MixD == << [name |-> "N2", mol_percent |-> 800], [name |-> "CO2", mol_percent |-> 150],
           [name |-> "HCl", mol_percent |-> 50] >>

\* an acid gas listed at 0 mol%, alone and beside another
MixE == << [name |-> "N2", mol_percent |-> 1000], [name |-> "CO2", mol_percent |-> 0] >>

MixF == << [name |-> "N2", mol_percent |-> 850], [name |-> "CO2", mol_percent |-> 150],
           [name |-> "H2S", mol_percent |-> 0] >>

\* percentages summing to 98
MixBadSum == << [name |-> "N2", mol_percent |-> 830], [name |-> "CO2", mol_percent |-> 150] >>

\* percentages summing to 98.9, 99, 101 and 101.1
MixSum989 == << [name |-> "N2", mol_percent |-> 839], [name |-> "CO2", mol_percent |-> 150] >>
MixSum990 == << [name |-> "N2", mol_percent |-> 840], [name |-> "CO2", mol_percent |-> 150] >>
MixSum1010 == << [name |-> "N2", mol_percent |-> 860], [name |-> "CO2", mol_percent |-> 150] >>
MixSum1011 == << [name |-> "N2", mol_percent |-> 861], [name |-> "CO2", mol_percent |-> 150] >>
\* a component the property provider does not know
MixUnknown == << [name |-> "N2", mol_percent |-> 850], [name |-> "Argon", mol_percent |-> 150] >>

Mixtures == {MixA, MixB, MixC, MixD, MixE, MixF}

RemovalTargets == {50, 90, 100}

\* 3 kg/s and 20 kg/s
LiquidRates == {30000, 200000}

\* None, 0, and 0.05, 0.2, 0.2004, 0.5 m
PackedHeights == {-1, 0, 50000, 200000, 200400, 500000}

BaseRequest ==
    [ gas_mixture |-> MixA, solvent_name |-> "Monoethanolamine",
      packing_name |-> "Mellapak250Y", removal_target_pct |-> 90,
      G_mass_kgs |-> 1000, L_mass_kgs |-> 200000, T_celsius |-> 40, P_bar |-> 101325,
      flooding_fraction |-> 70, mu_L_Pas |-> 1000, sigma_Nm |-> 72, rho_L_kgm3 |-> 1012,
      solve_for |-> "Z", Z_packed_m |-> -1, target_component |-> "None",
      solvent_wt_pct |-> 100 ]

Req(mix, solvent, rem, L, mode, Z, tc) ==
    [BaseRequest EXCEPT !.gas_mixture = mix, !.solvent_name = solvent,
                        !.removal_target_pct = rem, !.L_mass_kgs = L, !.solve_for = mode,
                        !.Z_packed_m = Z, !.target_component = tc]

\* a pinned target component is explored with the mixtures A (which lacks it)
\* and B (which has it), and with mixture D pinned to its species without
\* Henry data
Pins(mix) ==
    IF mix \in {MixA, MixB} THEN {"None", "H2S"}
    ELSE IF mix = MixD THEN {"None", "HCl"}
    ELSE {"None"}

ModeZRequests ==
    UNION { {Req(mix, solvent, rem, L, "Z", -1, tc) : tc \in Pins(mix)} :
            mix \in Mixtures, solvent \in {"Monoethanolamine", "Water"},
            rem \in RemovalTargets, L \in LiquidRates }

ModeEtaRequests ==
    UNION { {Req(mix, solvent, rem, L, "eta", Z, tc) : tc \in Pins(mix)} :
            mix \in Mixtures, solvent \in {"Monoethanolamine", "Water"},
            rem \in {50, 90}, L \in LiquidRates, Z \in {-1, 0, 200000, 200400} }

\* the mode-L calls: every bisection outcome (converged, exhausted, infeasible,
\* generous height, no Henry data, a 0 mol% acid gas), each at both liquid rates
ModeLScope(mix, solvent, rem, Z, tc) ==
    \/ mix = MixA /\ solvent = "Monoethanolamine" /\ tc = "None"
         /\ (rem # 100 \/ Z \in {50000, 200000})
    \/ mix = MixA /\ solvent = "Water" /\ tc = "None" /\ rem = 90 /\ Z \in {50000, 200000}
    \/ mix = MixB /\ solvent = "Monoethanolamine" /\ rem \in {50, 90} /\ Z \in {50000, 200000}
    \/ mix \in {MixC, MixD, MixE, MixF} /\ solvent = "Monoethanolamine" /\ rem = 90
         /\ Z = 200000

ModeLRequests ==
    UNION { {Req(mix, solvent, rem, L, "L", Z, tc) :
                tc \in {t \in Pins(mix) : ModeLScope(mix, solvent, rem, Z, t)}} :
            mix \in Mixtures, solvent \in {"Monoethanolamine", "Water"},
            rem \in RemovalTargets, L \in LiquidRates, Z \in PackedHeights }

\* mode-Z calls at liquid rates inside the bracket a bisection would search
\* (100 kg/s and 4000 kg/s), for the cross-validation of the modes
CrossRequests ==
    { Req(MixA, "Monoethanolamine", 90, L, "Z", -1, "None") : L \in {1000000, 40000000} }

\* calls the validation or the property lookups reject, an unknown solvent,
\* and a 30 wt% amine solution, in every mode
OtherRequests ==
    UNION { { Req(MixA, "Monoethanolamine", 90, L, "X", 200000, "None"),
              Req(MixBadSum, "Monoethanolamine", 90, L, mode, 200000, "None"),
              Req(MixSum989, "Monoethanolamine", 90, L, mode, 200000, "None"),
              Req(MixSum990, "Monoethanolamine", 90, L, mode, 200000, "None"),
              Req(MixSum1010, "Monoethanolamine", 90, L, mode, 200000, "None"),
              Req(MixSum1011, "Monoethanolamine", 90, L, mode, 200000, "None"),
              Req(MixUnknown, "Monoethanolamine", 90, L, mode, 200000, "None"),
              Req(MixA, "Sulfolane", 90, L, mode, 200000, "None"),
              [Req(MixA, "Monoethanolamine", 90, L, mode, 200000, "None")
                  EXCEPT !.packing_name = "Raschig"],
              [Req(MixA, "Monoethanolamine", 90, L, mode, 200000, "None")
                  EXCEPT !.packing_name = "PallRing50"],
              [Req(MixA, "Monoethanolamine", 90, L, mode, 200000, "None")
                  EXCEPT !.solvent_wt_pct = 30] } :
            L \in LiquidRates, mode \in {"Z", "eta", "L"} }

\* calls whose target_component names an inert species, a name outside the
\* mixture, the only acid gas, which has no Henry data, or an acid gas listed
\* at 0 mol%, which requires no height
PinnedAwayRequests ==
    UNION { { Req(MixB, "Monoethanolamine", rem, 30000, mode, Z, "N2"),
              Req(MixD, "Monoethanolamine", rem, 30000, mode, Z, "SO2"),
              Req(MixC, "Monoethanolamine", rem, 30000, mode, Z, "HCl"),
              Req(MixF, "Monoethanolamine", rem, 30000, mode, Z, "H2S") } :
            rem \in {50, 90}, mode \in {"Z", "eta"}, Z \in {200000} }

Requests ==
    ModeZRequests \cup ModeEtaRequests \cup ModeLRequests \cup CrossRequests \cup OtherRequests
      \cup PinnedAwayRequests

\* ------------------------------------------------------------------------
\* The requests explored at the scrubber-design endpoint (api.server).
\* An Optional field holds << >> for None and <<v>> for the value v.
\* ------------------------------------------------------------------------

\* None, -0.05 m, 0 and 0.2 m
ApiHeights == {<< >>, <<-50000>>, <<0>>, <<200000>>}

\* None, 0 and 20 kg/s
ApiLiquidRates == {<< >>, <<0>>, <<200000>>}

\* None, 0 and 50 %
ApiRemovalTargets == {<< >>, <<0>>, <<50>>}

ApiRequests ==
    { [ gas_mixture |-> MixA, solvent_name |-> "Monoethanolamine",
        packing_name |-> "Mellapak250Y", removal_target_pct |-> rem,
        G_mass_kgs |-> 1000, L_mass_kgs |-> L, T_celsius |-> 40, P_bar |-> 101325,
        flooding_fraction |-> 70, mu_L_Pas |-> 1000, sigma_Nm |-> 72, rho_L_kgm3 |-> 1012,
        solve_for |-> mode, Z_packed_m |-> Z ] :
      rem \in ApiRemovalTargets, L \in ApiLiquidRates, Z \in ApiHeights,
      mode \in {"Z", "eta", "L", "X"} }

\* ------------------------------------------------------------------------
\* The hydraulics calls explored: each argument negative, zero and positive
\* ------------------------------------------------------------------------

\* a physical quantity in 10^-3 SI units: negative, zero, 1.2 and 998
Quantities == {-1000, 0, 1200, 998000}

\* flooding fractions in %
Fractions == {-10, 0, 5, 10, 70, 95, 96, 200}

HydraulicsCalls ==
    { [fn |-> "flow_parameter", L_mass |-> L, G_mass |-> G, rho_G |-> rG, rho_L |-> rL] :
      L \in Quantities, G \in Quantities, rG \in Quantities, rL \in Quantities }
    \cup
    UNION { { [fn |-> "flooding_velocity", F_p |-> F, rho_G |-> rG, rho_L |-> rL,
               L_mass |-> L, G_mass |-> G, mu_L |-> mu] :
              F \in Quantities, rG \in Quantities, rL \in Quantities } :
            L \in Quantities, G \in Quantities, mu \in Quantities }
    \cup
    { [fn |-> "column_diameter", Q_gas_m3s |-> Q, u_flood |-> u, flooding_fraction |-> ff] :
      Q \in Quantities, u \in Quantities, ff \in Fractions }
    \cup
    UNION { { [fn |-> "pressure_drop_irrigated", u_G |-> u, F_p |-> F, rho_G |-> rG,
               rho_L |-> rL, L_mass |-> L, G_mass |-> G, mu_L |-> mu] :
              F \in Quantities, rG \in Quantities, rL \in Quantities } :
            L \in Quantities, G \in Quantities, mu \in {-1000, 0, 1200}, u \in {0, 1200} }
    \cup
    { [fn |-> "minimum_wetting_rate", a_p |-> a, sigma |-> s, mu_L |-> mu, rho_L |-> rL] :
      a \in Quantities, s \in Quantities, mu \in Quantities, rL \in Quantities }

\* ------------------------------------------------------------------------
\* The Kremser round trips explored.  Mole fractions are held in units of
\* 10^-9 (both functions are homogeneous of degree one in them), absorption
\* factors in fixed point.
\* ------------------------------------------------------------------------

\* y_in: 0.01, 0.05 and 0.10
InletFractions == {10000000, 50000000, 100000000}

\* y_out / y_in in percent
OutletPercents == {1, 5, 30, 60, 95}

\* A: 0.2, 0.5, 0.9, 1, 1.2, 2, 5 and 50
AbsorptionFactors == {200000, 500000, 900000, 1000000, 1200000, 2000000, 5000000, 50000000}

\* 10^-6 in the unit of the mole fractions
RoundTripTol == 1000

KremserCalls ==
    { [fn |-> "kremser", y_in |-> y, y_out |-> (y \div 100) * pct, A |-> A] :
      y \in InletFractions, pct \in OutletPercents, A \in AbsorptionFactors }

\* ------------------------------------------------------------------------
\* The concurrent database calls explored
\* ------------------------------------------------------------------------

Threads == 1..3

\* the database files
DbPaths == {"simco_chemdb.json", "other.json"}

\* a thread's call before its first step: a connect, a design call or an
\* add_* call on an instance made for db_path
ThreadCalls ==
    { [kind |-> k, db_path |-> p, pc |-> "start", _db |-> "None"] :
      k \in {"connect", "design", "add"}, p \in DbPaths }
\* ------------------------------------------------------------------------
\* One design_scrubber call as a state machine
\* ------------------------------------------------------------------------

VARIABLES
    _cache,       \* ChemicalDatabase._cache: the db_path whose table is cached ("None": none)
    threads,      \* the concurrent calls on the property database, one per thread
                  \* (<< >>: none): the call's kind and db_path, its position, and the
                  \* path of the table its instance holds in self._db
    call,         \* the library function called on its own and its arguments (NoCall: none)
    ret,          \* the outcome of that call (NoReturn: none yet)
    api_req,      \* the request posted to the endpoint (NoApiRequest: a direct call)
    http,         \* the endpoint's response: status (0: none yet) and error detail
    req,          \* the arguments of the call
    pc,           \* where the call is: "validate", "bisect", "eval_min", "eval_max",
                  \* "check_bounds", "loop", "design", "done" (returned), "error" (raised);
                  \* "endpoint" and "rejected" (HTTPException before the call) at the
                  \* endpoint; "call" and "returned" for a library function called on
                  \* its own
    L_mass_kgs,   \* the local L_mass_kgs of design_scrubber (rebound in mode L)
    L_min, L_max, \* the search bounds of _bisect_for_L
    Z_at_min, Z_at_max,
    L_lo, L_hi, L_mid, Z_mid, n_iter, converged,
    n_eval,       \* history: the number of _compute_Z_for_L calls made
    trace,        \* history: (L_lo, L_hi, L_mid, Z_mid) of every loop iteration, the
                  \* bracket as it was when the iteration began
    result,       \* the dict returned
    error         \* the ValueError raised ("none": none)

vars == << _cache, threads, call, ret, api_req, http, req, pc, L_mass_kgs, L_min, L_max, Z_at_min, Z_at_max, L_lo, L_hi, L_mid,
           Z_mid, n_iter, converged, n_eval, trace, result, error >>

\* the value of result while nothing has been returned
NoResult == [err |-> "no result"]

\* the state of a call: nothing evaluated, nothing returned
CallStart ==
    /\ L_mass_kgs = req.L_mass_kgs
    /\ L_min = 0 /\ L_max = 0 /\ Z_at_min = 0 /\ Z_at_max = 0
    /\ L_lo = 0 /\ L_hi = 0 /\ L_mid = 0 /\ Z_mid = 0 /\ n_iter = 0
    /\ converged = FALSE
    /\ n_eval = 0
    /\ trace = << >>
    /\ result = NoResult
    /\ error = "none"

\* api_req of a call that does not come through the endpoint
NoApiRequest == [solve_for |-> "none"]

\* http while the endpoint has not responded
NoResponse == [status |-> 0, detail |-> "none"]

\* req while the endpoint has not called design_scrubber
NoRequest == [BaseRequest EXCEPT !.gas_mixture = << >>, !.solve_for = "none"]

\* call when no library function is called on its own
NoCall == [fn |-> "none"]

\* ret while the function called has not returned or raised
NoReturn == [kind |-> "none", detail |-> "none"]

\* a direct call of design_scrubber
Init ==
    /\ _cache = "None"
    /\ threads = << >>
    /\ call = NoCall
    /\ ret = NoReturn
    /\ api_req = NoApiRequest
    /\ http = NoResponse
    /\ req \in Requests
    /\ pc = "validate"
    /\ CallStart

\* a request posted to the scrubber-design endpoint
InitApi ==
    /\ _cache = "None"
    /\ threads = << >>
    /\ call = NoCall
    /\ ret = NoReturn
    /\ api_req \in ApiRequests
    /\ http = NoResponse
    /\ req = NoRequest
    /\ pc = "endpoint"
    /\ CallStart

\* raise ValueError(msg): the call ends without a result
Raise(msg) == pc' = "error" /\ error' = msg

\* the call goes on to the step `next`
Goto(next) == pc' = next /\ error' = error

\* design_scrubber, parameter validation and the dispatch on solve_for
Validate ==
    /\ pc = "validate"
    /\ IF validate(req) # "none" THEN Raise(validate(req))
       ELSE Goto(IF req.solve_for = "L" THEN "bisect" ELSE "design")
    /\ UNCHANGED << _cache, threads, call, ret, api_req, http, req, L_mass_kgs, L_min, L_max, Z_at_min, Z_at_max, L_lo, L_hi, L_mid,
                    Z_mid, n_iter, converged, n_eval, trace, result >>

\* the bounds b are bound to L_min and L_max, or their ValueError is raised
SetBounds(b) ==
    IF b.err # "none" THEN Raise(b.err) /\ UNCHANGED << L_min, L_max >>
    ELSE L_min' = b.L_min /\ L_max' = b.L_max /\ Goto("eval_min")

\* _bisect_for_L up to the choice of L_min and L_max
BisectBounds ==
    /\ pc = "bisect"
    /\ SetBounds(bisect_bounds(req))
    /\ UNCHANGED << _cache, threads, call, ret, api_req, http, req, L_mass_kgs, Z_at_min, Z_at_max, L_lo, L_hi, L_mid, Z_mid, n_iter,
                    converged, n_eval, trace, result >>

\* the outcome z of _compute_Z_for_L is bound to Z_at_min
SetZmin(z) ==
    IF z.err # "none" THEN Raise(z.err) /\ UNCHANGED Z_at_min
    ELSE Z_at_min' = z.Z /\ Goto("eval_max")

\* Z_at_min = _compute_Z_for_L(..., L_min, ...)
EvalZmin ==
    /\ pc = "eval_min"
    /\ n_eval' = n_eval + 1
    /\ SetZmin(_compute_Z_for_L(req, L_min))
    /\ UNCHANGED << _cache, threads, call, ret, api_req, http, req, L_mass_kgs, L_min, L_max, Z_at_max, L_lo, L_hi, L_mid, Z_mid,
                    n_iter, converged, trace, result >>

\* the outcome z of _compute_Z_for_L is bound to Z_at_max
SetZmax(z) ==
    IF z.err # "none" THEN Raise(z.err) /\ UNCHANGED Z_at_max
    ELSE Z_at_max' = z.Z /\ Goto("check_bounds")

\* Z_at_max = _compute_Z_for_L(..., L_max, ...)
EvalZmax ==
    /\ pc = "eval_max"
    /\ n_eval' = n_eval + 1
    /\ SetZmax(_compute_Z_for_L(req, L_max))
    /\ UNCHANGED << _cache, threads, call, ret, api_req, http, req, L_mass_kgs, L_min, L_max, Z_at_min, L_lo, L_hi, L_mid, Z_mid,
                    n_iter, converged, trace, result >>

\* the loop's initial values e are bound
EnterLoop(e) ==
    L_lo' = e.L_lo /\ L_hi' = e.L_hi /\ L_mid' = e.L_mid /\ Goto("loop")

\* the feasibility check, the choice of the bracket and the loop's initial values
CheckBounds ==
    /\ pc = "check_bounds"
    /\ IF too_short(Z_at_max, req.Z_packed_m)
       THEN Raise("Target height is too short") /\ UNCHANGED << L_lo, L_hi, L_mid >>
       ELSE EnterLoop(bisect_entry(bisect_bracket(Z_at_min, req.Z_packed_m, L_min, L_max)))
    /\ UNCHANGED << _cache, threads, call, ret, api_req, http, req, L_mass_kgs, L_min, L_max, Z_at_min, Z_at_max, Z_mid, n_iter,
                    converged, n_eval, trace, result >>

\* the loop variables as a record
LoopState ==
    [L_lo |-> L_lo, L_hi |-> L_hi, L_mid |-> L_mid, Z_mid |-> Z_mid, n_iter |-> n_iter,
     converged |-> converged, err |-> "none"]

\* the loop variables after one pass are bound from b
SetLoop(b) ==
    /\ L_lo' = b.L_lo
    /\ L_hi' = b.L_hi
    /\ L_mid' = b.L_mid
    /\ Z_mid' = b.Z_mid
    /\ n_iter' = b.n_iter
    /\ converged' = b.converged
    /\ trace' = Append(trace, [L_lo |-> L_lo, L_hi |-> L_hi, L_mid |-> b.L_mid,
                               Z_mid |-> b.Z_mid])
    /\ IF b.err # "none" THEN Raise(b.err) ELSE Goto("loop")

\* one pass of the for loop of _bisect_for_L
BisectIter ==
    /\ pc = "loop"
    /\ loop_runs(n_iter, converged)
    /\ n_eval' = n_eval + 1
    /\ SetLoop(bisect_iter(req, LoopState))
    /\ UNCHANGED << _cache, threads, call, ret, api_req, http, req, L_mass_kgs, L_min, L_max, Z_at_min, Z_at_max, result >>

\* the loop has ended (break, or range exhausted): return L_mid, converged,
\* n_iter; design_scrubber rebinds L_mass_kgs to the L returned
BisectReturn ==
    /\ pc = "loop"
    /\ ~loop_runs(n_iter, converged)
    /\ L_mass_kgs' = mode_L_rate(L_mass_kgs, L_mid)
    /\ pc' = "design"
    /\ UNCHANGED << _cache, threads, call, ret, api_req, http, req, L_min, L_max, Z_at_min, Z_at_max, L_lo, L_hi, L_mid, Z_mid, n_iter,
                    converged, n_eval, trace, result, error >>

\* the (L, converged, iterations) the result reports
Bisection ==
    IF req.solve_for = "L"
    THEN [L |-> L_mid, converged |-> converged, iterations |-> n_iter]
    ELSE NoBisection

\* the dict r is returned, or its ValueError raised
Return(r) ==
    IF r.err # "none" THEN Raise(r.err) /\ UNCHANGED result
    ELSE result' = r /\ Goto("done")

\* design_scrubber from "Prepare system" to the return
Design ==
    /\ pc = "design"
    /\ Return(design_result(req, L_mass_kgs, Bisection))
    /\ UNCHANGED << _cache, threads, call, ret, api_req, http, req, L_mass_kgs, L_min, L_max, Z_at_min, Z_at_max, L_lo, L_hi, L_mid,
                    Z_mid, n_iter, converged, n_eval, trace >>

\* scrubber_design_endpoint up to the call: the DOF checks, then
\* design_scrubber is entered with the arguments built from the request
Endpoint ==
    /\ pc = "endpoint"
    /\ IF api_reject(api_req) # "none"
       THEN /\ http' = [status |-> 400, detail |-> api_reject(api_req)]
            /\ pc' = "rejected"
            /\ UNCHANGED << req, L_mass_kgs >>
       ELSE /\ req' = core_arguments(api_req)
            /\ L_mass_kgs' = core_arguments(api_req).L_mass_kgs
            /\ pc' = "validate"
            /\ UNCHANGED http
    /\ UNCHANGED << _cache, threads, call, ret, api_req, L_min, L_max, Z_at_min, Z_at_max, L_lo, L_hi, L_mid, Z_mid,
                    n_iter, converged, n_eval, trace, result, error >>

\* scrubber_design_endpoint after the call: the result is returned (200), a
\* ValueError becomes HTTPException(400) with its message
Respond ==
    /\ pc \in {"done", "error"}
    /\ api_req # NoApiRequest
    /\ http = NoResponse
    /\ http' = IF pc = "done" THEN [status |-> 200, detail |-> "none"]
               ELSE [status |-> 400, detail |-> error]
    /\ UNCHANGED << _cache, threads, call, ret, api_req, req, pc, L_mass_kgs, L_min, L_max, Z_at_min, Z_at_max, L_lo,
                    L_hi, L_mid, Z_mid, n_iter, converged, n_eval, trace, result, error >>

Next ==
    \/ Validate
    \/ BisectBounds
    \/ EvalZmin
    \/ EvalZmax
    \/ CheckBounds
    \/ BisectIter
    \/ BisectReturn
    \/ Design

Spec == Init /\ [][Next]_vars

NextApi ==
    \/ Endpoint
    \/ Validate
    \/ BisectBounds
    \/ EvalZmin
    \/ EvalZmax
    \/ CheckBounds
    \/ BisectIter
    \/ BisectReturn
    \/ Design
    \/ Respond

SpecApi == InitApi /\ [][NextApi]_vars

\* ------------------------------------------------------------------------
\* The hydraulics functions called on their own
\* ------------------------------------------------------------------------

\* a hydraulics function called with arguments of every sign
InitHydraulics ==
    /\ _cache = "None"
    /\ threads = << >>
    /\ call \in HydraulicsCalls
    /\ ret = NoReturn
    /\ api_req = NoApiRequest
    /\ http = NoResponse
    /\ req = NoRequest
    /\ pc = "call"
    /\ CallStart

\* the function returns a float, returns a complex number (a negative base
\* under a fractional power) or raises
Returns(kind, detail) ==
    /\ ret' = [kind |-> kind, detail |-> detail]
    /\ pc' = "returned"
    /\ UNCHANGED << _cache, threads, call, api_req, http, req, L_mass_kgs, L_min, L_max, Z_at_min, Z_at_max,
                    L_lo, L_hi, L_mid, Z_mid, n_iter, converged, n_eval, trace, result,
                    error >>

\* flow_parameter(L_mass, G_mass, rho_G, rho_L); math.sqrt raises ValueError
\* on a negative ratio
FlowParameter ==
    /\ pc = "call" /\ call.fn = "flow_parameter"
    /\ IF call.G_mass <= 0 THEN Returns("ValueError", "Gas mass flow rate must be positive")
       ELSE IF call.rho_L <= 0 THEN Returns("ValueError", "Liquid density must be positive")
       ELSE IF call.rho_G < 0 THEN Returns("ValueError", "math domain error")
       ELSE Returns("value", "none")

\* flooding_velocity(F_p, rho_G, rho_L, L_mass, G_mass, mu_L), with its call of
\* flow_parameter; (mu_L / mu_ref) ** 0.1 is 0 for mu_L = 0 (a division by
\* zero follows) and complex for mu_L < 0 (its comparison with 0 raises)
FloodingVelocity ==
    /\ pc = "call" /\ call.fn = "flooding_velocity"
    /\ IF call.F_p <= 0 THEN Returns("ValueError", "Packing factor must be positive")
       ELSE IF call.rho_G <= 0 \/ call.rho_L <= 0
            THEN Returns("ValueError", "Densities must be positive")
       ELSE IF call.rho_L <= call.rho_G
            THEN Returns("ValueError", "Liquid density must exceed gas density")
       ELSE IF call.G_mass <= 0
            THEN Returns("ValueError", "Gas mass flow rate must be positive")
       ELSE IF call.mu_L = 0 THEN Returns("ZeroDivisionError", "float division by zero")
       ELSE IF call.mu_L < 0 THEN Returns("TypeError", "'<=' not supported")
       ELSE Returns("value", "none")

\* column_diameter(Q_gas_m3s, u_flood, flooding_fraction), the fraction in %
ColumnDiameter ==
    /\ pc = "call" /\ call.fn = "column_diameter"
    /\ IF call.Q_gas_m3s <= 0
       THEN Returns("ValueError", "Gas volumetric flow must be positive")
       ELSE IF call.u_flood <= 0
            THEN Returns("ValueError", "Flooding velocity must be positive")
       ELSE IF ~(10 <= call.flooding_fraction /\ call.flooding_fraction <= 95)
            THEN Returns("ValueError", "Flooding fraction should be 0.1-0.95")
       ELSE Returns("value", "none")

\* pressure_drop_irrigated(u_G, F_p, rho_G, rho_L, L_mass, G_mass, mu_L);
\* L_over_G is 0 unless G_mass > 0, math.sqrt raises on a negative L_over_G
PressureDropIrrigated ==
    /\ pc = "call" /\ call.fn = "pressure_drop_irrigated"
    /\ IF call.u_G <= 0 \/ call.F_p <= 0 \/ call.rho_G <= 0
       THEN Returns("ValueError", "u_G, F_p, rho_G must all be positive")
       ELSE IF call.G_mass > 0 /\ call.L_mass < 0
            THEN Returns("ValueError", "math domain error")
       ELSE IF call.mu_L < 0 THEN Returns("complex", "none")
       ELSE Returns("value", "none")

\* minimum_wetting_rate(a_p, sigma, mu_L, rho_L)
MinimumWettingRate ==
    /\ pc = "call" /\ call.fn = "minimum_wetting_rate"
    /\ IF call.a_p <= 0 THEN Returns("ValueError", "Specific area must be positive")
       ELSE IF call.rho_L = 0 \/ call.sigma = 0
            THEN Returns("ZeroDivisionError", "float division by zero")
       ELSE IF Sgn(call.mu_L) * Sgn(call.rho_L) * Sgn(call.sigma) < 0
            THEN Returns("complex", "none")
       ELSE Returns("value", "none")

NextHydraulics ==
    \/ FlowParameter
    \/ FloodingVelocity
    \/ ColumnDiameter
    \/ PressureDropIrrigated
    \/ MinimumWettingRate

SpecHydraulics == InitHydraulics /\ [][NextHydraulics]_vars

\* ------------------------------------------------------------------------
\* The Kremser functions called on their own: kremser_NTU, then kremser_y_out
\* on its result
\* ------------------------------------------------------------------------

InitKremser ==
    /\ _cache = "None"
    /\ threads = << >>
    /\ call \in KremserCalls
    /\ ret = NoReturn
    /\ api_req = NoApiRequest
    /\ http = NoResponse
    /\ req = NoRequest
    /\ pc = "call"
    /\ CallStart

\* the state after a Kremser function returned or raised
KremserReturns(r, next) ==
    /\ ret' = r
    /\ pc' = next
    /\ UNCHANGED << _cache, threads, call, api_req, http, req, L_mass_kgs, L_min, L_max, Z_at_min, Z_at_max,
                    L_lo, L_hi, L_mid, Z_mid, n_iter, converged, n_eval, trace, result,
                    error >>

\* NTU = kremser_NTU(y_in, y_out, A)
KremserNTU ==
    /\ pc = "call" /\ call.fn = "kremser"
    /\ LET r == kremser_NTU(call.y_in, call.y_out, call.A, Ln(call.A))
       IN  IF r.ok THEN KremserReturns([kind |-> "value", NTU |-> r.NTU], "ntu")
           ELSE KremserReturns([kind |-> "ValueError", NTU |-> 0], "returned")

\* kremser_y_out(y_in, A, NTU)
KremserYOut ==
    /\ pc = "ntu"
    /\ LET r == kremser_y_out(call.y_in, call.A, Ln(call.A), ret.NTU)
       IN  IF r.ok
           THEN KremserReturns([kind |-> "value", NTU |-> ret.NTU, y_out |-> r.y_out],
                               "returned")
           ELSE KremserReturns([kind |-> "ValueError", NTU |-> ret.NTU], "returned")

NextKremser ==
    \/ KremserNTU
    \/ KremserYOut

SpecKremser == InitKremser /\ [][NextKremser]_vars

\* ------------------------------------------------------------------------
\* Concurrent calls on the property database (engine.database.db).  A table
\* is identified by the db_path it was loaded from.  A design call obtains
\* its ChemicalDatabase instance by connect and then reads self._db in its
\* lookups.
\* ------------------------------------------------------------------------

InitThreads ==
    /\ _cache = "None"
    /\ threads \in [Threads -> ThreadCalls]
    /\ call = NoCall
    /\ ret = NoReturn
    /\ api_req = NoApiRequest
    /\ http = NoResponse
    /\ req = NoRequest
    /\ pc = "threads"
    /\ CallStart

\* thread t moves on; everything outside the database is untouched
ThreadStep(t, next, db, cached) ==
    /\ threads' = [threads EXCEPT ![t].pc = next, ![t]._db = db]
    /\ _cache' = cached
    /\ UNCHANGED << call, ret, api_req, http, req, pc, L_mass_kgs, L_min, L_max, Z_at_min,
                    Z_at_max, L_lo, L_hi, L_mid, Z_mid, n_iter, converged, n_eval, trace,
                    result, error >>

\* connect, the test: _cache is None or _cache.get("__path") != self.db_path
ConnectTest(t) ==
    /\ pc = "threads" /\ threads[t].kind \in {"connect", "design"}
    /\ threads[t].pc = "start"
    /\ ThreadStep(t, IF _cache = "None" \/ _cache # threads[t].db_path THEN "load" ELSE "bind",
                  threads[t]._db, _cache)

\* connect, the branch: the file of self.db_path is loaded and becomes
\* ChemicalDatabase._cache
ConnectLoad(t) ==
    /\ pc = "threads" /\ threads[t].pc = "load"
    /\ ThreadStep(t, "bind", threads[t]._db, threads[t].db_path)

\* connect, the end: self._db = ChemicalDatabase._cache, read anew; the
\* indices are built from it and the instance is returned
ConnectBind(t) ==
    /\ pc = "threads" /\ threads[t].pc = "bind"
    /\ ThreadStep(t, IF threads[t].kind = "design" THEN "lookup" ELSE "done", _cache, _cache)

\* the lookups of a design call: they read the table the instance holds
DesignLookup(t) ==
    /\ pc = "threads" /\ threads[t].pc = "lookup"
    /\ ThreadStep(t, "done", threads[t]._db, _cache)

\* add_compound, add_antoine, add_nrtl, add_henry, add_packing: raise
\* NotImplementedError
AddRecord(t) ==
    /\ pc = "threads" /\ threads[t].kind = "add"
    /\ threads[t].pc = "start"
    /\ ThreadStep(t, "raised", threads[t]._db, _cache)

NextThreads ==
    \/ \E t \in Threads : ConnectTest(t)
    \/ \E t \in Threads : ConnectLoad(t)
    \/ \E t \in Threads : ConnectBind(t)
    \/ \E t \in Threads : DesignLookup(t)
    \/ \E t \in Threads : AddRecord(t)

SpecThreads == InitThreads /\ [][NextThreads]_vars

\* ------------------------------------------------------------------------
\* Properties of the DOF solver
\* ------------------------------------------------------------------------

ModeL == req.solve_for = "L"

\* the indices of the calculated entries of an acid_gas_analysis
Calculated(acid_gas_results) ==
    {i \in 1..Len(acid_gas_results) : acid_gas_results[i].status = "calculated"}

\* the largest Z_required_m over the calculated entries, 0 when there is none
MaxHeight(acid_gas_results) ==
    IF Calculated(acid_gas_results) = {} THEN 0
    ELSE CHOOSE z \in {acid_gas_results[i].Z_required_m : i \in Calculated(acid_gas_results)} :
             \A i \in Calculated(acid_gas_results) : acid_gas_results[i].Z_required_m <= z

\* some calculated entry is named `name` and requires the height z
Attains(acid_gas_results, name, z) ==
    \E i \in Calculated(acid_gas_results) :
        acid_gas_results[i].name = name /\ acid_gas_results[i].Z_required_m = z

\* C1: in mode L, once both bounds are evaluated and the height at L_max
\* exceeds the target height, _bisect_for_L raises "Target height is too
\* short" having made exactly the two bound evaluations and no iteration, and
\* design_scrubber returns no result; and the call goes on to the loop only
\* when the height at L_max does not exceed the target.
C1_InfeasibleTargetRaises ==
    /\ (ModeL /\ n_eval >= 2 /\ pc # "check_bounds" /\ Z_at_max > req.Z_packed_m) =>
          /\ pc = "error"
          /\ error = "Target height is too short"
          /\ n_eval = 2
          /\ n_iter = 0
          /\ trace = << >>
          /\ result = NoResult
    /\ (ModeL /\ pc \in {"loop", "design", "done"}) => Z_at_max <= req.Z_packed_m
    /\ error = "Target height is too short" => ModeL /\ Z_at_max > req.Z_packed_m

C1_Raised ==
    /\ ModeL
    /\ pc = "error"
    /\ error = "Target height is too short"
    /\ Z_at_max > req.Z_packed_m
    /\ n_eval = 2

\* C2: in mode L, when all 50 iterations pass without meeting the tolerance,
\* no error is raised: the call goes on to the design at the last midpoint and
\* returns a result with bisection_converged false and bisection_iterations 50.
C2_ExhaustedReturnsResult ==
    (ModeL /\ n_iter = 50 /\ ~converged /\ pc # "loop") =>
        /\ pc \in {"design", "done"}
        /\ error = "none"
        /\ L_mass_kgs = L_mid
        /\ pc = "done" => /\ result.err = "none"
                          /\ result.bisection_converged = FALSE
                          /\ result.bisection_iterations = 50
                          /\ result.computed_L_kgs = L_mid

\* C3: the bisection loop makes at most 50 iterations and at least one when it
\* is left normally, each iteration makes one height evaluation on top of the
\* two at the bounds (at most 2 + 50 in total), and the iteration count
\* returned is between 1 and 50.
C3_BisectionBounded ==
    /\ n_iter \in 0..50
    /\ n_eval <= 2 + 50
    /\ n_iter = Len(trace)
    /\ pc = "loop" => n_eval = 2 + n_iter
    /\ (ModeL /\ pc \in {"design", "done"}) => n_iter \in 1..50 /\ n_eval = 2 + n_iter
    /\ (ModeL /\ pc = "done") =>
          result.bisection_iterations = n_iter /\ result.bisection_iterations \in 1..50

C3_Exhausted ==
    ModeL /\ pc = "done" /\ result.bisection_iterations = 50 /\ n_eval = 52

\* C4: converged is true exactly when the returned L is a midpoint whose
\* height is within the tolerance of the target, and the loop stopped at the
\* first such midpoint: no earlier midpoint was within the tolerance.
C4_ConvergedIffWithinTolerance ==
    (ModeL /\ pc \in {"loop", "design", "done"} /\ Len(trace) >= 1) =>
        /\ converged <=> within_tol(trace[Len(trace)].Z_mid, req.Z_packed_m)
        /\ \A i \in 1..(Len(trace) - 1) : ~within_tol(trace[i].Z_mid, req.Z_packed_m)
        /\ L_mid = trace[Len(trace)].L_mid
        /\ L_mid = (trace[Len(trace)].L_lo + trace[Len(trace)].L_hi) \div 2
        /\ trace[Len(trace)].Z_mid = _compute_Z_for_L(req, L_mid).Z
        /\ pc = "done" => /\ result.computed_L_kgs = L_mid
                          /\ result.bisection_converged = converged

C4_ConvergedLate ==
    ModeL /\ pc = "done" /\ result.bisection_converged /\ result.bisection_iterations > 1

\* the exit gas of the back-calculation at height Z, for the liquid rate and
\* the analysis of the result
ExitGasAt(Z) ==
    _backcalc_at_height(_prepare_system(req, L_mass_kgs), result.acid_gas_analysis, Z).exit_gas

\* C5 (as stated): in modes eta and L the reported Z_design_m is exactly the
\* caller's Z_packed_m.
C5_ReportedHeightIsCallersHeight ==
    (pc = "done" /\ req.solve_for \in {"eta", "L"}) => result.Z_design_m = req.Z_packed_m

\* C5 (amended): in mode Z the height back-calculated at and reported is the
\* analyzer's; in modes eta and L the back-calculation is made at exactly the
\* caller's Z_packed_m, never at the height re-computed by the analysis, and
\* Z_design_m reports Z_packed_m rounded to 3 decimals.
C5_DesignHeightByMode ==
    pc = "done" =>
        /\ req.solve_for = "Z" =>
              /\ result.Z_design_m = _compute_Z_for_L(req, L_mass_kgs).Z
              /\ result.exit_gas = ExitGasAt(_compute_Z_for_L(req, L_mass_kgs).Z)
        /\ req.solve_for \in {"eta", "L"} =>
              /\ result.Z_design_m = Round3(req.Z_packed_m)
              /\ result.exit_gas = ExitGasAt(req.Z_packed_m)

C5_HeightNotRecomputed ==
    /\ pc = "done"
    /\ ModeL
    /\ _compute_Z_for_L(req, L_mass_kgs).Z # req.Z_packed_m
    /\ result.Z_design_m = req.Z_packed_m
    /\ result.exit_gas # ExitGasAt(_compute_Z_for_L(req, L_mass_kgs).Z)

C8_EtaIgnoresRemovalTarget ==
    (req.solve_for = "eta" /\ pc \in {"done", "error"}) =>
        \A rem \in RemovalTargets :
            IF pc = "done"
            THEN design_scrubber([req EXCEPT !.removal_target_pct = rem]) = result
            ELSE design_scrubber([req EXCEPT !.removal_target_pct = rem]).err = error

C8_EtaReturned ==
    /\ req.solve_for = "eta" /\ pc = "done"
    /\ req.removal_target_pct = 50
    /\ result.computed_removal_pct > 0
    /\ \E i \in 1..Len(result.exit_gas) : result.exit_gas[i].removal_pct > 0

\* C9: in mode L, the call with any other L_mass_kgs and otherwise the same
\* arguments has the same outcome, and the hydraulics and the per-species
\* analysis of the result are those at computed_L_kgs.
C9_ModeLIgnoresLiquidRate ==
    (ModeL /\ pc \in {"done", "error"}) =>
        /\ \A L \in LiquidRates :
              IF pc = "done"
              THEN design_scrubber([req EXCEPT !.L_mass_kgs = L]) = result
              ELSE design_scrubber([req EXCEPT !.L_mass_kgs = L]).err = error
        /\ pc = "done" =>
              /\ result = design_result(req, result.computed_L_kgs,
                                        [L |-> result.computed_L_kgs,
                                         converged |-> result.bisection_converged,
                                         iterations |-> result.bisection_iterations])
              /\ result.acid_gas_analysis =
                    _compute_acid_gas_analysis(_prepare_system(req, result.computed_L_kgs),
                                               req.removal_target_pct,
                                               req.target_component).acid_gas_results

C9_ModeLReturned ==
    /\ ModeL /\ pc = "done"
    /\ result.computed_L_kgs # req.L_mass_kgs
    /\ result.bisection_converged

\* C10: in every mode, each component whose category is not acid_gas leaves
\* with its inlet fraction, removal_pct 0 and absorbed_mol_s 0.
C10_InertsPassThrough ==
    pc = "done" =>
        /\ Len(result.exit_gas) = Len(req.gas_mixture)
        /\ \A i \in 1..Len(req.gas_mixture) :
              get_compound(req.gas_mixture[i].name).category # "acid_gas" =>
                  /\ result.exit_gas[i].name = req.gas_mixture[i].name
                  /\ result.exit_gas[i].outlet_mol_frac = req.gas_mixture[i].mol_percent * SCH
                  /\ result.exit_gas[i].removal_pct = 0
                  /\ result.exit_gas[i].absorbed_mol_s = 0

C10_InertBesideRemoved ==
    /\ pc = "done"
    /\ \E i, j \in 1..Len(req.gas_mixture) :
          /\ get_compound(req.gas_mixture[i].name).category # "acid_gas"
          /\ result.exit_gas[i].removal_pct = 0
          /\ result.exit_gas[j].removal_pct > 0

\* ------------------------------------------------------------------------
\* Properties of the analysis, the back-calculation and the input checks
\* ------------------------------------------------------------------------

\* entry i of the mixture is an acid gas the property provider has no Henry
\* data for
NoHenry(i) ==
    /\ get_compound(req.gas_mixture[i].name).found
    /\ get_compound(req.gas_mixture[i].name).category = "acid_gas"
    /\ ~get_henry(req.gas_mixture[i].name).found

\* C11: an acid gas without Henry data is recorded with status
\* no_henry_data (and never as calculated), is not the governing component,
\* leaves Z_design the largest height over the calculated species, and leaves
\* in exit_gas with its inlet fraction and removal 0; in modes Z and eta a call
\* with such a species raises no error but the rejection of its arguments.
C11_NoHenryPassesThrough ==
    /\ pc = "done" =>
          \A i \in 1..Len(req.gas_mixture) : NoHenry(i) =>
              /\ \E k \in 1..Len(result.acid_gas_analysis) :
                    /\ result.acid_gas_analysis[k].name = req.gas_mixture[i].name
                    /\ result.acid_gas_analysis[k].status = "no_henry_data"
              /\ \A k \in Calculated(result.acid_gas_analysis) :
                    result.acid_gas_analysis[k].name # req.gas_mixture[i].name
              /\ result.dominant_component # req.gas_mixture[i].name
              /\ req.solve_for = "Z" =>
                    result.Z_design_m = MaxHeight(result.acid_gas_analysis)
              /\ result.exit_gas[i].name = req.gas_mixture[i].name
              /\ result.exit_gas[i].outlet_mol_frac = req.gas_mixture[i].mol_percent * SCH
              /\ result.exit_gas[i].removal_pct = 0
              /\ result.exit_gas[i].absorbed_mol_s = 0
    /\ (pc = "error" /\ req.solve_for \in {"Z", "eta"}
          /\ \E i \in 1..Len(req.gas_mixture) : NoHenry(i)) => validate(req) # "none"

C11_NoHenryBesideRemoved ==
    /\ pc = "done"
    /\ req.solve_for = "eta"
    /\ req.target_component # "None"
    /\ \E i, j \in 1..Len(req.gas_mixture) :
          /\ NoHenry(i)
          /\ req.target_component = req.gas_mixture[i].name
          /\ result.exit_gas[j].removal_pct > 0

\* every component of the mixture is known to the property provider and the
\* percentages sum to 100 within 1.0
ValidMixture ==
    /\ \A i \in 1..Len(req.gas_mixture) : get_compound(req.gas_mixture[i].name).found
    /\ Abs(total_mol(req.gas_mixture, Len(req.gas_mixture)) - 1000) <= 10

\* the sum of outlet_mol_pct over exit_gas[1..n], in 1e-4 %
RECURSIVE SumOutletPct(_, _)
SumOutletPct(exit_gas, n) ==
    IF n = 0 THEN 0 ELSE exit_gas[n].outlet_mol_pct + SumOutletPct(exit_gas, n - 1)

\* C12: for a valid gas mixture (a component at 0 mol% included) a call in
\* mode Z or eta with accepted arguments and a known packing raises no error,
\* and in every mode the outlet_mol_pct of a returned exit_gas sum to 100
\* within 0.1.
C12_ExitGasSumsTo100 ==
    /\ (ValidMixture /\ get_packing(req.packing_name).found /\ validate(req) = "none"
          /\ req.solve_for \in {"Z", "eta"}) => pc # "error"
    /\ pc = "done" =>
          Abs(SumOutletPct(result.exit_gas, Len(result.exit_gas)) - 100 * 10 ^ 4) <= 1000

\* the removal fraction the analyzer is asked for, in fixed point: the
\* caller's target, or 99 % in mode eta
RequestedFraction == (IF req.solve_for = "eta" THEN 99 ELSE req.removal_target_pct) * 10 ^ 4

\* C13 (as stated): every calculated species with A < 1 is retargeted to
\* 0.90 A and flagged removal_capped; every species with A >= 1 keeps the
\* requested target and is not flagged.
C13_CappedWheneverBelowOne ==
    pc = "done" =>
        \A k \in Calculated(result.acid_gas_analysis) :
            IF result.acid_gas_analysis[k].A_full < SC
            THEN /\ result.acid_gas_analysis[k].removal_capped
                 /\ result.acid_gas_analysis[k].target_removal_pct
                      = RDiv(Mul(result.acid_gas_analysis[k].A_full, 900000), 100)
            ELSE /\ ~result.acid_gas_analysis[k].removal_capped
                 /\ result.acid_gas_analysis[k].target_removal_pct = RequestedFraction \div 100

\* C13 (amended): a calculated species is retargeted to 0.90 A and flagged
\* removal_capped exactly when A < 1 and the requested removal fraction
\* exceeds 0.95 A; every other species (A >= 1, or A < 1 with a target of at
\* most 0.95 A) keeps the requested target and is not flagged.
C13_CappedAboveReach ==
    pc = "done" =>
        \A k \in Calculated(result.acid_gas_analysis) :
            /\ result.acid_gas_analysis[k].removal_capped
                 <=> /\ result.acid_gas_analysis[k].A_full < SC
                     /\ RequestedFraction > Mul(result.acid_gas_analysis[k].A_full, 950000)
            /\ result.acid_gas_analysis[k].target_removal_pct
                 = IF result.acid_gas_analysis[k].removal_capped
                   THEN RDiv(Mul(result.acid_gas_analysis[k].A_full, 900000), 100)
                   ELSE RequestedFraction \div 100

C13_BelowOneUncapped ==
    /\ pc = "done"
    /\ \E k \in Calculated(result.acid_gas_analysis) :
          /\ result.acid_gas_analysis[k].A_full < SC
          /\ ~result.acid_gas_analysis[k].removal_capped
          /\ result.acid_gas_analysis[k].Z_required_m > 0

\* a request whose DOF combination is malformed: an unknown solve_for, mode eta
\* or L without a positive packed height, mode Z or eta without a liquid rate,
\* mode Z or L without a removal target
Malformed(r) ==
    \/ r.solve_for \notin {"Z", "eta", "L"}
    \/ r.solve_for \in {"eta", "L"} /\ r.Z_packed_m = << >>
    \/ r.solve_for \in {"eta", "L"} /\ r.Z_packed_m # << >> /\ r.Z_packed_m[1] <= 0
    \/ r.solve_for \in {"Z", "eta"} /\ r.L_mass_kgs = << >>
    \/ r.solve_for \in {"Z", "L"} /\ r.removal_target_pct = << >>

\* C14: a request with a malformed DOF combination is rejected by the endpoint
\* before design_scrubber is called: the call is never entered with it, and it
\* is never answered with a design.
C14_MalformedRejectedAtEndpoint ==
    (api_req # NoApiRequest /\ Malformed(api_req)) =>
        /\ pc \in {"endpoint", "rejected"}
        /\ req = NoRequest
        /\ http.status # 200

\* the sum of the mol-percent values of the call's mixture, in 0.1 %
MolPercentSum ==
    SumSeq([i \in 1..Len(req.gas_mixture) |-> req.gas_mixture[i].mol_percent],
           Len(req.gas_mixture))

\* C15: in every solve mode a call whose mol-percent values sum to a total more
\* than 1.0 away from 100 produces no design result: it gets no further than
\* the first analysis (in mode L: the height at L_min), which ends it with an
\* error; and a call whose total is within 100 +/- 1.0 never ends with the
\* error of the sum check.
C15_SumOutsideToleranceRejected ==
    /\ Abs(MolPercentSum - 1000) > 10 =>
          /\ result = NoResult
          /\ pc # "done"
          /\ pc \in {"validate", "bisect", "eval_min", "design", "error"}
          /\ pc = "design" => req.solve_for # "L"
          /\ pc = "error" => error # "none"
    /\ Abs(MolPercentSum - 1000) <= 10 => error # "Gas mixture mol% sum must be ~100%"

\* a mode-L call whose mixture sums to 98.9 % has ended with the error of the
\* sum check
C15_JustOutsideRejectedInModeL ==
    /\ req.solve_for = "L"
    /\ MolPercentSum = 989
    /\ pc = "error"
    /\ error = "Gas mixture mol% sum must be ~100%"

\* an identifier of the call that the property provider does not know
UnknownIdentifier ==
    \/ ~get_packing(req.packing_name).found
    \/ \E i \in 1..Len(req.gas_mixture) : ~get_compound(req.gas_mixture[i].name).found
    \/ ~get_compound(req.solvent_name).found

\* C16: a call whose packing name, gas component name or solvent name is not
\* known to the property provider produces no design result.
C16_UnknownIdentifierRejected ==
    UnknownIdentifier => (pc # "done" /\ result = NoResult)

\* the arguments of the hydraulics call that the claim requires to be positive
\* (its densities, flows, viscosity and packing factor) and, where the
\* function takes both densities, the liquid density exceeding the gas density
MustFail ==
    CASE call.fn = "flow_parameter" ->
            \/ call.L_mass <= 0 \/ call.G_mass <= 0 \/ call.rho_G <= 0 \/ call.rho_L <= 0
            \/ call.rho_L <= call.rho_G
      [] call.fn = "flooding_velocity" ->
            \/ call.F_p <= 0 \/ call.rho_G <= 0 \/ call.rho_L <= 0 \/ call.L_mass <= 0
            \/ call.G_mass <= 0 \/ call.mu_L <= 0 \/ call.rho_L <= call.rho_G
      [] call.fn = "column_diameter" ->
            \/ call.Q_gas_m3s <= 0
            \/ ~(10 <= call.flooding_fraction /\ call.flooding_fraction <= 95)
      [] call.fn = "pressure_drop_irrigated" ->
            \/ call.F_p <= 0 \/ call.rho_G <= 0 \/ call.rho_L <= 0 \/ call.L_mass <= 0
            \/ call.G_mass <= 0 \/ call.mu_L <= 0 \/ call.rho_L <= call.rho_G
      [] call.fn = "minimum_wetting_rate" -> call.mu_L <= 0 \/ call.rho_L <= 0
      [] OTHER -> FALSE

\* C17: a hydraulics function called with a non-positive density, flow,
\* viscosity or packing factor, with a liquid density not above the gas
\* density, or (column_diameter) with a flooding fraction outside [0.1, 0.95]
\* raises ValueError.
C17_HydraulicsRejectNonPositive ==
    (pc = "returned" /\ MustFail) => ret.kind = "ValueError"

\* the removal asked of the round trip is within reach of the absorption
\* factor: A >= 1, or y_out / y_in > 1 - A
WithinReach == call.A >= SC \/ call.y_out > Mul(call.y_in, SC - call.A)

Evaluations ==
    {[L |-> L_min, Z |-> Z_at_min], [L |-> L_max, Z |-> Z_at_max]}
      \cup {[L |-> trace[i].L_mid, Z |-> trace[i].Z_mid] : i \in 1..Len(trace)}

\* the bisection of a mode-L call has both bracket heights, and every species
\* of the mixture is present
Bracketed ==
    /\ req.solve_for = "L"
    /\ pc \in {"check_bounds", "loop", "design", "done"}
    /\ \A i \in 1..Len(req.gas_mixture) : req.gas_mixture[i].mol_percent > 0

\* the height _compute_Z_for_L gives 2 % below L_max
HeightNearMax == _compute_Z_for_L(req, L_max - L_max \div 50).Z

\* C19: the design height is strictly decreasing in the liquid rate over the
\* rates the bisection searches: of two heights computed in one bisection the
\* one at the lower liquid rate is the greater, and the height 2 % below L_max
\* is greater than the height at L_max.
C19_HeightStrictlyDecreasing ==
    Bracketed =>
        /\ \A a, b \in Evaluations : a.L < b.L => a.Z > b.Z
        /\ pc = "check_bounds" => HeightNearMax > Z_at_max

\* the mode-L call that cross-validates a returned mode-Z call: the same
\* arguments, with the height mode Z returned as the packed height
CrossCheck == design_scrubber([req EXCEPT !.solve_for = "L", !.Z_packed_m = result.Z_design_m])

\* C20: when a mode-Z call at liquid rate L0 has returned the height Z_ref, the
\* mode-L call with the same arguments and Z_packed_m = Z_ref returns a
\* converged bisection and a liquid rate within 5 % of L0.
C20_ModeLRecoversLiquidRate ==
    (req.solve_for = "Z" /\ pc = "done") =>
        /\ CrossCheck.err = "none"
        /\ CrossCheck.bisection_converged
        /\ 20 * Abs(CrossCheck.computed_L_kgs - req.L_mass_kgs) < req.L_mass_kgs

\* ------------------------------------------------------------------------
\* Rounding, the bisection bracket, pinned targets and mixtures without
\* Henry data
\* ------------------------------------------------------------------------

\* the unrounded required height H_OG NTU of entry r of acid_gas_results
FullHeightOf(r) ==
    IF r.status = "calculated" /\ r.NTU_full > 0 THEN Mul(r.H_OG_full, r.NTU_full) ELSE 0

\* the greatest unrounded required height over acid_gas_results
FullHeight(acid_gas_results) ==
    LET hs == {FullHeightOf(acid_gas_results[i]) : i \in 1..Len(acid_gas_results)} \cup {0}
    IN  CHOOSE h \in hs : \A g \in hs : g <= h

\* the analysis of the call at its own liquid rate
OwnContext == _prepare_system(req, req.L_mass_kgs)
OwnAnalysis == _compute_acid_gas_analysis(OwnContext, analysis_target(req), req.target_component)

\* C21: no value rounded for display is reused in a dependent computation: the
\* result of an unpinned mode-Z call is the one back-calculated at the
\* unrounded design height, the greatest H_OG NTU of the analysis.
C21_BackcalcAtUnroundedHeight ==
    (pc = "done" /\ req.solve_for = "Z" /\ req.target_component = "None") =>
        result = design_backcalc(req, NoBisection, OwnContext, OwnAnalysis,
                                 FullHeight(OwnAnalysis.acid_gas_results))

\* C22: under every interleaving of concurrent connect, design and add_*
\* calls, a call that has connected holds the table of its own db_path, which
\* is the table it holds when run alone.
C22_CallsSeeOwnTable ==
    \A t \in DOMAIN threads :
        threads[t].pc \in {"lookup", "done"} => threads[t]._db = threads[t].db_path

\* the width of the bracket at the start of pass i of the for loop
Width(i) == trace[i].L_hi - trace[i].L_lo

\* C23: at every pass of the bisection loop whose bracket is wider than one
\* unit of L, L_lo < L_mid < L_hi with L_mid the midpoint; a pass without
\* convergence replaces L_lo by L_mid when Z(L_mid) > Z_target and L_hi
\* otherwise, leaving the other endpoint alone, so that the width at pass i is
\* the initial width divided by 2^(i-1), to the unit of L.
C23_BracketHalves ==
    \A i \in 1..Len(trace) :
        Width(i) > 1 =>
            /\ trace[i].L_lo < trace[i].L_mid /\ trace[i].L_mid < trace[i].L_hi
            /\ trace[i].L_lo + trace[i].L_hi - 2 * trace[i].L_mid \in {0, 1}
            /\ Pow2(i - 1) * (Width(i) - 1) <= Width(1)
            /\ Width(1) <= Pow2(i - 1) * (Width(i) + 1)
            /\ i < Len(trace) =>
                   IF trace[i].Z_mid > req.Z_packed_m
                   THEN trace[i + 1].L_lo = trace[i].L_mid /\ trace[i + 1].L_hi = trace[i].L_hi
                   ELSE trace[i + 1].L_lo = trace[i].L_lo /\ trace[i + 1].L_hi = trace[i].L_mid

\* a search has ended after raising L_lo in one pass and lowering L_hi in another
C23_BothEndpointsMoved ==
    /\ pc = "done"
    /\ \E i \in 1..(Len(trace) - 1) : Width(i + 1) > 1 /\ trace[i + 1].L_lo > trace[i].L_lo
    /\ \E i \in 1..(Len(trace) - 1) : Width(i + 1) > 1 /\ trace[i + 1].L_hi < trace[i].L_hi

\* the height _compute_Z_for_L gives at liquid rate L for the call's arguments
HeightAt(L) == _compute_Z_for_L(req, L).Z

\* the heights of one bisection are non-increasing in the liquid rate: the
\* heights it computed and the height at 0.5 L_min
NonIncreasing ==
    \A a, b \in Evaluations \cup {[L |-> L_min \div 2, Z |-> HeightAt(L_min \div 2)]} :
        a.L < b.L => a.Z >= b.Z

\* the bisection started from the narrowed bracket [0.5 L_min, L_min]
Narrowed == Len(trace) > 0 /\ trace[1].L_hi = L_min

\* C24: when the heights of a bisection are non-increasing in the liquid rate,
\* the bracket encloses the target at the start of every pass,
\* Z(L_lo) >= Z_target >= Z(L_hi), from [L_min, L_max] and from the narrowed
\* bracket [0.5 L_min, L_min] alike.
C24_BracketEnclosesTarget ==
    (Bracketed /\ pc = "done" /\ NonIncreasing) =>
        \A i \in 1..Len(trace) :
            /\ HeightAt(trace[i].L_lo) >= req.Z_packed_m
            /\ req.Z_packed_m >= HeightAt(trace[i].L_hi)

\* the bisection of a mode-L call has computed the heights at both bounds
BoundsKnown ==
    /\ req.solve_for = "L"
    /\ pc \in {"check_bounds", "loop", "design", "done"} \/ (pc = "error" /\ n_eval > 2)

\* the generous-height case: the target height exceeds the height at L_min
GenerousHeight == BoundsKnown /\ Z_at_min < req.Z_packed_m /\ Z_at_max <= req.Z_packed_m

\* the normal case: the target height lies between the heights at the bounds
NormalHeight == BoundsKnown /\ Z_at_min >= req.Z_packed_m /\ Z_at_max <= req.Z_packed_m

\* C25: in the generous-height case mode L raises no error and returns a
\* liquid rate between 0.5 L_min and L_min; in the normal case the rate
\* returned lies between L_min and L_max.
C25_ReturnedRateInBracket ==
    /\ GenerousHeight =>
           /\ pc # "error"
           /\ pc \in {"design", "done"} => L_min \div 2 <= L_mass_kgs /\ L_mass_kgs <= L_min
           /\ pc = "done" => L_min \div 2 <= result.computed_L_kgs /\ result.computed_L_kgs <= L_min
    /\ NormalHeight =>
           /\ pc \in {"design", "done"} => L_min <= L_mass_kgs /\ L_mass_kgs <= L_max
           /\ pc = "done" => L_min <= result.computed_L_kgs /\ result.computed_L_kgs <= L_max

\* a generous-height call has returned, and so has a normal one that did not
\* converge at its first pass
C25_GenerousReturned == GenerousHeight /\ pc = "done" /\ result.computed_L_kgs < L_min

C25_NormalReturned == NormalHeight /\ pc = "done" /\ n_iter > 1

\* the analysis of the call's mixture at the lower bound L_min
AnalysisAtMin ==
    _compute_acid_gas_analysis(_prepare_system(req, L_min), analysis_target(req),
                               req.target_component).acid_gas_results

\* entry k has the largest effective equilibrium slope of the calculated entries
Steepest(rs, k) ==
    /\ rs[k].status = "calculated"
    /\ \A j \in 1..Len(rs) : rs[j].status = "calculated" => rs[j].lnm_eff_full <= rs[k].lnm_eff_full

\* C26: at the lower bound L_min the analyzer's absorption factor of the
\* species with the largest effective equilibrium slope is 1.05 (to 0.001),
\* whatever the solvent and its solvent_wt_pct, and L_max is the greater of
\* 100 L_min and 1000 kg/s, above L_min.
C26_AbsorptionFactorAtMin ==
    (req.solve_for = "L" /\ pc \in {"eval_max", "check_bounds", "loop", "design", "done"}) =>
        /\ \A k \in 1..Len(AnalysisAtMin) :
               Steepest(AnalysisAtMin, k) =>
                   /\ AnalysisAtMin[k].A_full >= 1049000
                   /\ AnalysisAtMin[k].A_full <= 1051000
        /\ L_max = Max(100 * L_min, 10000000)
        /\ L_max > L_min

\* the distance of the height of pass i from the target height
Miss(i) == Abs(trace[i].Z_mid - req.Z_packed_m)

\* C27: when the bisection ends without convergence, the liquid rate returned
\* is the midpoint whose height is nearest the target among all midpoints
\* evaluated.
C27_ReturnsBestMidpoint ==
    (req.solve_for = "L" /\ pc \in {"design", "done"} /\ ~converged) =>
        /\ L_mass_kgs = trace[Len(trace)].L_mid
        /\ \A i \in 1..Len(trace) : Miss(Len(trace)) <= Miss(i)

\* target_component names no calculated entry of acid_gas_results that
\* requires a height
PinnedAway(acid_gas_results, target_component) ==
    /\ target_component # "None"
    /\ \A i \in Calculated(acid_gas_results) :
           acid_gas_results[i].name = target_component => acid_gas_results[i].Z_required_m = 0

\* C28: when target_component names no calculated species that requires a
\* height, a mode-Z or mode-eta call that passed validation does not fail; in
\* mode Z the design height is the largest Z_i over the calculated species,
\* and dominant_component is a species attaining that largest Z_i, not the
\* pinned name.
C28_PinnedAwayFallsBack ==
    (req.solve_for \in {"Z", "eta"} /\ pc \in {"done", "error"} /\ validate(req) = "none"
       /\ OwnContext.err = "none" /\ PinnedAway(OwnAnalysis.acid_gas_results, req.target_component)) =>
        /\ pc = "done"
        /\ req.solve_for = "Z" => result.Z_design_m = MaxHeight(result.acid_gas_analysis)
        /\ Calculated(result.acid_gas_analysis) # {} =>
               Attains(result.acid_gas_analysis, result.dominant_component,
                       MaxHeight(result.acid_gas_analysis))
        /\ result.dominant_component # req.target_component

\* the removal_pct exit_gas reports for the species named `name`
RemovalOf(exit_gas, name) ==
    LET i == CHOOSE j \in 1..Len(exit_gas) : exit_gas[j].name = name
    IN  exit_gas[i].removal_pct

\* C29: in mode Z without a target component and with a removal target below
\* 100 %, every calculated species has at the design height a back-calculated
\* removal_pct not below its target_removal_pct, and the governing species
\* has exactly its target.
C29_TargetsReachedAtDesignHeight ==
    (pc = "done" /\ req.solve_for = "Z" /\ req.target_component = "None"
       /\ req.removal_target_pct < 100) =>
        \A k \in Calculated(result.acid_gas_analysis) :
            /\ RemovalOf(result.exit_gas, result.acid_gas_analysis[k].name)
                 >= result.acid_gas_analysis[k].target_removal_pct
            /\ result.acid_gas_analysis[k].name = result.dominant_component =>
                   RemovalOf(result.exit_gas, result.acid_gas_analysis[k].name)
                     = result.acid_gas_analysis[k].target_removal_pct

\* every compound of the mixture is known and none is an acid gas with Henry
\* data
NothingAbsorbable ==
    \A i \in 1..Len(req.gas_mixture) :
        /\ get_compound(req.gas_mixture[i].name).found
        /\ ~(get_compound(req.gas_mixture[i].name).category = "acid_gas"
               /\ get_henry(req.gas_mixture[i].name).found)

\* C30: when the mixture has no acid gas with Henry data, a mode-L call ends
\* with an error without one evaluation of Z(L); a mode-Z or mode-eta call
\* that passed validation returns a result in which every component leaves
\* with its inlet fraction and removal 0 and dominant_component is None, with
\* Z_design_m = 0 and dP_total_Pa = 0 in mode Z.
C30_NothingAbsorbable ==
    /\ (NothingAbsorbable /\ req.solve_for = "L" /\ pc \notin {"validate", "bisect"}) =>
           pc = "error" /\ n_eval = 0 /\ trace = << >>
    /\ (NothingAbsorbable /\ req.solve_for \in {"Z", "eta"} /\ pc \in {"done", "error"}
          /\ validate(req) = "none") =>
           /\ pc = "done"
           /\ Len(result.exit_gas) = Len(req.gas_mixture)
           /\ \A i \in 1..Len(req.gas_mixture) :
                  /\ result.exit_gas[i].name = req.gas_mixture[i].name
                  /\ result.exit_gas[i].outlet_mol_frac = req.gas_mixture[i].mol_percent * SCH
                  /\ result.exit_gas[i].outlet_mol_pct = req.gas_mixture[i].mol_percent * SCH
                  /\ result.exit_gas[i].removal_pct = 0
                  /\ result.exit_gas[i].absorbed_mol_s = 0
           /\ result.dominant_component = "None"
           /\ req.solve_for = "Z" => result.Z_design_m = 0 /\ result.dP_total_Pa = 0

\* a mode-Z call on a mixture whose only acid gas has no Henry data has returned
C30_NoHenryOnlyReturned ==
    /\ NothingAbsorbable /\ req.solve_for = "Z" /\ pc = "done"
    /\ \E i \in 1..Len(req.gas_mixture) : NoHenry(i)

====
